---- MODULE Spec2Model ----
(***************************************************************************)
(* Model of the YouTube transcript services:                               *)
(*   - extract_video_id            (youtube_html_fetcher.py)               *)
(*   - YouTubeTranscriptFetcher    (youtube_hybrid_fetcher.py)             *)
(*   - /api/process, /api/diagnose (app.py)                                *)
(* Strings are sequences of one-character strings.                         *)
(***************************************************************************)
EXTENDS Integers, Sequences, FiniteSets, TLC

VARIABLES
    url,        \* extract_video_id: the argument
    parsed,     \* extract_video_id: the returned value, Unset before the call
    ppc,        \* extract_video_id: "call" before, "done" after
    \* --- YouTubeTranscriptFetcher (youtube_hybrid_fetcher.py) ---
    env,        \* what __init__ found: html_fetcher, api_key, rapidapi_key
    errors,     \* self.errors
    gpc,        \* get_transcript: "idle", "loop" or "done"
    idx,        \* get_transcript: position in methods of the next method
    video_id,   \* get_transcript: argument
    language,   \* get_transcript: argument
    transcript, \* get_transcript: the local variable
    result,     \* get_transcript: the returned list
    calls,      \* history: the methods invoked by this request, in order
    outcomes,   \* history: how each of those invocations ended
    reported,   \* history: the method printed as "Successfully retrieved"
    \* --- app.py ---
    rpc,        \* request handler: "idle", "fetching" or "responded"
    endpoint,   \* "process" or "diagnose"
    req,        \* request.json: url, language
    response,   \* the JSON body and status returned
    transcript_cache,   \* the module-level dictionary
    now,        \* datetime.now(), in hours
    cacheLookups,       \* history: cache lookups made by this request
    cachedFor,  \* history: the video id and language each entry was fetched for
    diagnosed,  \* history: diagnose_transcript_access calls of this request
    nreq,       \* number of requests received
    \* --- the retry loops (youtube_transcript_api_fetcher.py,
    \*     youtube_data_api_fetcher.py) ---
    rfun,       \* which function runs: "transcript_api", "data_api_timedtext"
    max_retries,        \* the bound of the loop
    script,     \* input: how the k-th invocation of the operation ends
    retry_count,        \* the local variable
    last_error, \* the local variable, None before any failure
    invoked,    \* history: the number of invocations of the operation
    waits,      \* history: the time.sleep calls, in time units
    retval,     \* the returned list
    rtpc,       \* "off", "loop", "after" (behind the loop) or "done"
    \* --- ThirdPartyTranscriptFetcher (third_party_transcript_fetcher.py) ---
    tp_in,      \* input: what each request of get_transcript answers
    tp_out,     \* the returned list
    tpc,        \* "off", "call" or "done"
    \* --- one fetcher called twice; two requests at once ---
    plan,       \* input: the response each method meets, by position
    ncall,      \* number of get_transcript calls made on the fetcher
    first,      \* the list the first of them returned
    fetchers,   \* the YouTubeTranscriptFetcher instances: self.errors of each
    threads,    \* the requests in progress: the locals of each
    \* --- get_transcript of youtube_oauth_fetcher.py and of
    \*     youtube_transcript_fetcher.py, step by step ---
    f_in,       \* input: what each request and each helper meets
    f_pc,       \* the position in get_transcript, "off" when not in use
    f_local,    \* the local variable: captions, or the response in hand
    f_requests, \* history: the network requests made, in order
    f_out,      \* the returned list
    \* --- track selection and the normalisers, applied to one input ---
    n_fun,      \* which function runs
    n_in,       \* input: the argument
    n_out,      \* the returned value
    n_pc        \* "off", "call" or "done"

pvars == <<url, parsed, ppc>>
hvars == <<env, errors, gpc, idx, video_id, language, transcript, result,
           calls, outcomes, reported>>
avars == <<rpc, endpoint, req, response, transcript_cache, now,
           cacheLookups, cachedFor, diagnosed, nreq>>
rvars == <<rfun, max_retries, script, retry_count, last_error, invoked, waits,
           retval, rtpc>>
tvars == <<tp_in, tp_out, tpc>>
cvars == <<plan, ncall, first, fetchers, threads>>
fvars == <<f_in, f_pc, f_local, f_requests, f_out>>
nvars == <<n_fun, n_in, n_out, n_pc>>
yvars == <<fvars, nvars>>
xvars == <<rvars, tvars, cvars, yvars>>
vars == <<pvars, hvars, avars, xvars>>

(***************************************************************************)
(* Characters and character classes                                        *)
(***************************************************************************)
NL == "\n"

Lower == {"a","b","c","d","e","f","g","h","i","j","k","l","m",
          "n","o","p","q","r","s","t","u","v","w","x","y","z"}
Upper == {"A","B","C","D","E","F","G","H","I","J","K","L","M",
          "N","O","P","Q","R","S","T","U","V","W","X","Y","Z"}
Digit == {"0","1","2","3","4","5","6","7","8","9"}

\* \w of the re module, restricted to ASCII
WordChars == Lower \cup Upper \cup Digit \cup {"_"}

\* [A-Za-z0-9_-], the identifier grammar of the specification
IdChars == WordChars \cup {"-"}

\* the characters excluded by the class [^#&?]
StopChars == {"#", "&", "?"}

\* pattern elements that are not literal characters
Dot == "DOT"
WordCls == "WORD"

\* Python's None where a string is expected; no string of characters equals it
None == <<"None">>
\* Python's None where a list of segments is expected; no list of segments
\* equals it
NoneList == <<[none |-> TRUE]>>
Unset == <<"Unset">>

IdLen == 11

(***************************************************************************)
(* The two regular expressions of extract_video_id                         *)
(***************************************************************************)
\* the alternatives of group 1 of standard_pattern, in order
P_youtu_be == <<"y","o","u","t","u",Dot,"b","e","/">>
\* 'v' in place of 'v\/'
P_v_noslash == <<"v">>

P_v == <<"v","/">>
P_u == <<"/","u","/",WordCls,"/">>
P_embed == <<"e","m","b","e","d","/">>
P_watch == <<"w","a","t","c","h","?">>

standard_pattern == <<P_youtu_be, P_v, P_u, P_embed, P_watch>>

\* group 2 of shorts_pattern
shorts_pattern == <<"y","o","u","t","u","b","e",Dot,"c","o","m","/",
                    "s","h","o","r","t","s","/">>

ElemMatches(p, c) ==
    IF p = Dot THEN c # NL
    ELSE IF p = WordCls THEN c \in WordChars
    ELSE c = p

\* pat matches s at position i
MatchesAt(pat, s, i) ==
    /\ i >= 1
    /\ i + Len(pat) - 1 <= Len(s)
    /\ \A k \in 1..Len(pat) : ElemMatches(pat[k], s[i + k - 1])

\* position after the first alternative of alts that matches s at i, 0 if none
AltEnd(alts, s, i) ==
    LET hits == {a \in 1..Len(alts) : MatchesAt(alts[a], s, i)}
    IN  IF hits = {} THEN 0
        ELSE LET a == CHOOSE x \in hits : \A y \in hits : x <= y
             IN  i + Len(alts[a])

\* number of characters '^.*' can consume: the first line of s
LineLen(s) ==
    LET nls == {k \in 1..Len(s) : s[k] = NL}
    IN  IF nls = {} THEN Len(s)
        ELSE (CHOOSE x \in nls : \A y \in nls : x <= y) - 1

\* '^.*' is greedy: the match starts the alternatives at the last position
\* of the first line where one of them matches; 0 when the regex fails
GreedyStart(alts, s) ==
    LET cand == {i \in 1..(LineLen(s) + 1) : AltEnd(alts, s, i) # 0}
    IN  IF cand = {} THEN 0
        ELSE CHOOSE x \in cand : \A y \in cand : y <= x

\* an optional character c at position p ('c?')
Opt(s, p, c) == IF p <= Len(s) /\ s[p] = c THEN p + 1 ELSE p

\* '[^#&?]*' from position p: the maximal run without a stop character
RunEnd(s, p) ==
    LET stops == {k \in p..Len(s) : s[k] \in StopChars}
    IN  IF stops = {} THEN Len(s) + 1
        ELSE CHOOSE x \in stops : \A y \in stops : x <= y

Run(s, p) == SubSeq(s, p, RunEnd(s, p) - 1)

\* re.search(standard_pattern, url): [matched, group(7)]
StandardMatch(s) ==
    LET i == GreedyStart(standard_pattern, s)
    IN  IF i = 0 THEN [matched |-> FALSE, group |-> <<>>]
        ELSE LET e == AltEnd(standard_pattern, s, i)
                 q == Opt(s, Opt(s, Opt(s, e, "?"), "v"), "=")
             IN  [matched |-> TRUE, group |-> Run(s, q)]

\* re.search(shorts_pattern, url): [matched, group(3)]
ShortsMatch(s) ==
    LET i == GreedyStart(<<shorts_pattern>>, s)
    IN  IF i = 0 THEN [matched |-> FALSE, group |-> <<>>]
        ELSE [matched |-> TRUE, group |-> Run(s, i + Len(shorts_pattern))]

extract_video_id(s) ==
    IF s = <<>> \/ s = None THEN None
    ELSE LET m == StandardMatch(s)
         IN  IF m.matched /\ m.group # <<>> /\ Len(m.group) = IdLen
             THEN m.group
             ELSE LET m2 == ShortsMatch(s)
                  IN  IF m2.matched /\ m2.group # <<>> THEN m2.group
                      ELSE None

(***************************************************************************)
(* Inputs of extract_video_id                                              *)
(***************************************************************************)
MaxTailLen == 2
MaxJunkLen == 3

\* all sequences over alphabet of length 0..n
RECURSIVE SeqsUpTo(_, _)
SeqsUpTo(alphabet, n) ==
    IF n = 0 THEN {<<>>}
    ELSE LET shorter == SeqsUpTo(alphabet, n - 1)
         IN  shorter \cup {Append(t, c) : t \in shorter, c \in alphabet}

Https == <<"h","t","t","p","s",":","/","/">>
Www == <<"w","w","w",".">>
YoutubeCom == <<"y","o","u","t","u","b","e",".","c","o","m">>
YoutuBe == <<"y","o","u","t","u",".","b","e">>

\* the URL shapes, each up to the place of the identifier
WatchBase == Https \o Www \o YoutubeCom \o <<"/","w","a","t","c","h","?","v","=">>
ShortLinkBase == Https \o YoutuBe \o <<"/">>
EmbedBase == Https \o Www \o YoutubeCom \o <<"/","e","m","b","e","d","/">>
VBase == Https \o Www \o YoutubeCom \o <<"/","v","/">>
ShortsBase == Https \o Www \o YoutubeCom \o <<"/","s","h","o","r","t","s","/">>

Shapes == {WatchBase, ShortLinkBase, EmbedBase, VBase, ShortsBase}

\* identifiers: a first character, a fixed middle, a last character
IdHeads == {"d", "v", "-", "_"}
IdLasts == {"Q", "0"}
IdMiddle == <<"Q","w","4","w","9","W","g","X","c">>
GoodIds == {<<h>> \o IdMiddle \o <<l>> : h \in IdHeads, l \in IdLasts}

\* candidates that are not identifiers: too short, too long, with a delimiter
BadIds == {<<"a","b","c">>,
           <<"d">> \o IdMiddle,
           <<"d">> \o IdMiddle \o <<"Q","Q">>,
           <<"a","b","c","/","d","e","f","g","h","i","j">>,
           <<"a","b","c","=","d","e",":","g","h",".","j">>}

\* what may follow the identifier: nothing, or a delimiter and more text
TailDelims == {"&", "?", "#"}
TailChars == {"t", "v", "/"}
Tails == {<<>>} \cup
         {<<d>> \o t : d \in TailDelims, t \in SeqsUpTo(TailChars, MaxTailLen)}

ShapedUrls == {b \o id \o t : b \in Shapes, id \in GoodIds \cup BadIds, t \in Tails}

\* inputs that are no URL: text, near misses of the shapes, short junk
NotAUrl == <<"n","o","t"," ","a"," ","u","r","l">>
NearMisses == {<<"w","a","t","c","h">>, <<"v","=">>, <<"e","m","b","e","d">>,
               YoutuBe, <<"/","s","h","o","r","t","s","/">>, <<"/","u","/">>,
               NotAUrl \o <<" ">>}
JunkChars == {"v", "/", "?", "a", NL}
Malformed == {<<>>, NotAUrl, NotAUrl \o <<"!","!">>} \cup
             {<<"x">> \o P_v \o id : id \in GoodIds} \cup
             {m \o id \o t : m \in NearMisses, id \in GoodIds, t \in Tails} \cup
             SeqsUpTo(JunkChars, MaxJunkLen) \cup
             {j \o ShortLinkBase \o id : j \in SeqsUpTo(JunkChars, 1) \ {<<>>},
                                          id \in GoodIds}

Inputs == ShapedUrls \cup GoodIds \cup Malformed

(***************************************************************************)
(* extract_video_id as a one-step program                                  *)
(***************************************************************************)
ExtractCall ==
    /\ ppc = "call"
    /\ parsed' = extract_video_id(url)
    /\ ppc' = "done"
    /\ UNCHANGED <<url, hvars, avars, xvars>>

(***************************************************************************)
(* Transcript values                                                       *)
(***************************************************************************)
MaxSegs == 1
Texts == {"hello", "world"}

\* a list of n segments; start and duration follow the position
Segment(t, k) == [text |-> t, start |-> k - 1, duration |-> 1]
SegmentLists ==
    UNION {{[k \in 1..n |-> Segment(f[k], k)] : f \in [1..n -> Texts]} :
           n \in 1..MaxSegs}

\* YouTubeHTMLTranscriptFetcher._create_error_response
_create_error_response(vid) ==
    <<[text |-> <<"unavailable", vid>>, start |-> 0, duration |-> 10,
       isUnavailableMessage |-> TRUE]>>

\* the list _method_youtube_data_api returns when the caption flag is set
requires_oauth_response(vid) ==
    <<[text |-> <<"requires_oauth", vid>>, start |-> 0, duration |-> 10,
       isUnavailableMessage |-> TRUE, hasCaptions |-> TRUE,
       requiresOAuth |-> TRUE]>>

\* error_details: one "Method m: e" line per recorded error
error_details(errs) == [k \in 1..Len(errs) |-> <<errs[k].method, errs[k].error>>]

\* the list get_transcript returns after the loop
fallback_message(vid, errs) ==
    <<[text |-> <<"unavailable", vid>>, start |-> 0, duration |-> 10,
       isUnavailableMessage |-> TRUE, errorDetails |-> error_details(errs)]>>

\* 'if len(transcript) > 1' in place of 'if transcript'
Truthy_longer(v) == v # NoneList /\ Len(v) > 1

\* truth value of a returned object: None and the empty list are false
Truthy(v) == v # NoneList /\ v # <<>>

\* d.get('isUnavailableMessage') of a segment dictionary
GetFlag(seg) ==
    IF "isUnavailableMessage" \in DOMAIN seg THEN seg.isUnavailableMessage
    ELSE FALSE

\* len(transcript) == 1 and transcript[0].get('isUnavailableMessage')
IsUnavailable(t) == Len(t) = 1 /\ GetFlag(t[1])

(***************************************************************************)
(* The strategy methods: what each returns for what the network answers    *)
(***************************************************************************)
Return(v) == [raised |-> FALSE, value |-> v, error |-> ""]
Raise(e) == [raised |-> TRUE, value |-> NoneList, error |-> e]

Resp(kind) == [kind |-> kind, segs |-> <<>>]
OkResps == {[kind |-> "ok", segs |-> sl] : sl \in SegmentLists}

\* YouTubeHTMLTranscriptFetcher.get_transcript
HtmlResps == {Resp(k) : k \in {"exception", "non200", "no_player",
                               "bad_player_json", "no_tracks", "no_base_url",
                               "caption_non200", "bad_caption_json",
                               "no_segments"}} \cup OkResps
html_get_transcript(vid, lang, resp) ==
    IF resp.kind = "ok" /\ resp.segs # <<>> THEN resp.segs
    ELSE _create_error_response(vid)

_method_html(e, vid, lang, resp) ==
    IF ~e.html_fetcher THEN Return(NoneList)
    ELSE Return(html_get_transcript(vid, lang, resp))

\* _method_direct_timedtext and _method_direct_timedtext_asr
TimedtextResps == {Resp(k) : k \in {"connection_error", "non200", "empty_body",
                                    "parse_error", "bad_float", "no_text_nodes"}}
                  \cup OkResps
_method_direct_timedtext(e, vid, lang, resp) ==
    CASE resp.kind = "connection_error" -> Raise("ConnectionError")
      [] resp.kind \in {"non200", "empty_body"} -> Return(NoneList)
      [] resp.kind = "bad_float" -> Raise("ValueError")
      [] resp.kind = "parse_error" -> Return(NoneList)
      [] OTHER -> IF resp.segs # <<>> THEN Return(resp.segs) ELSE Return(NoneList)

_method_direct_timedtext_asr(e, vid, lang, resp) ==
    CASE resp.kind = "connection_error" -> Raise("ConnectionError")
      [] resp.kind \in {"non200", "empty_body"} -> Return(NoneList)
      [] resp.kind = "bad_float" -> Raise("ValueError")
      [] resp.kind = "parse_error" -> Return(NoneList)
      [] OTHER -> IF resp.segs # <<>> THEN Return(resp.segs) ELSE Return(NoneList)

\* _method_invidious: every failure inside the loop is swallowed
InvidiousResps == {Resp(k) : k \in {"exception", "non200", "no_captions"}}
                  \cup OkResps
_method_invidious(e, vid, lang, resp) ==
    IF resp.kind = "ok" /\ resp.segs # <<>> THEN Return(resp.segs)
    ELSE Return(NoneList)

\* _method_rapidapi
RapidapiResps == {Resp(k) : k \in {"exception", "non200", "not_a_list",
                                   "empty_list"}} \cup OkResps
_method_rapidapi(e, vid, lang, resp) ==
    IF ~e.rapidapi_key THEN Return(NoneList)
    ELSE IF resp.kind = "ok" /\ resp.segs # <<>> THEN Return(resp.segs)
    ELSE Return(NoneList)

\* _method_gotranscript
GotranscriptResps == {Resp(k) : k \in {"exception", "non200", "no_success"}}
                     \cup OkResps
_method_gotranscript(e, vid, lang, resp) ==
    IF resp.kind = "ok" /\ resp.segs # <<>> THEN Return(resp.segs)
    ELSE Return(NoneList)

\* _method_youtube_data_api
DataApiResps == {Resp(k) : k \in {"exception", "non200", "no_items",
                                  "no_captions", "has_captions"}}
_method_youtube_data_api(e, vid, lang, resp) ==
    IF ~e.api_key THEN Return(NoneList)
    ELSE IF resp.kind = "has_captions" THEN Return(requires_oauth_response(vid))
    ELSE Return(NoneList)

\* the list methods of get_transcript, by method_name
\* the list in the order direct, auto-generated, HTML, Data API, mirrors
methods_documented ==
    <<"direct_timedtext", "direct_timedtext_asr", "html", "youtube_data_api",
      "invidious", "rapidapi", "gotranscript">>

\* methods = [...] of get_transcript
methods == <<"html", "direct_timedtext", "direct_timedtext_asr", "invidious",
             "rapidapi", "gotranscript", "youtube_data_api">>

\* a method that returns before any request sees no response
NoResp == {Resp("not_called")}

\* every method sends its request, with or without its key
Responses_keyless(m, e) ==
    CASE m = "html" -> IF e.html_fetcher THEN HtmlResps ELSE NoResp
      [] m = "direct_timedtext" -> TimedtextResps
      [] m = "direct_timedtext_asr" -> TimedtextResps
      [] m = "invidious" -> InvidiousResps
      [] m = "rapidapi" -> RapidapiResps
      [] m = "gotranscript" -> GotranscriptResps
      [] m = "youtube_data_api" -> DataApiResps

Responses(m, e) ==
    CASE m = "html" -> IF e.html_fetcher THEN HtmlResps ELSE NoResp
      [] m = "direct_timedtext" -> TimedtextResps
      [] m = "direct_timedtext_asr" -> TimedtextResps
      [] m = "invidious" -> InvidiousResps
      [] m = "rapidapi" -> IF e.rapidapi_key THEN RapidapiResps ELSE NoResp
      [] m = "gotranscript" -> GotranscriptResps
      [] m = "youtube_data_api" -> IF e.api_key THEN DataApiResps ELSE NoResp

\* method(video_id, language)
Invoke(m, e, vid, lang, resp) ==
    CASE m = "html" -> _method_html(e, vid, lang, resp)
      [] m = "direct_timedtext" -> _method_direct_timedtext(e, vid, lang, resp)
      [] m = "direct_timedtext_asr" ->
             _method_direct_timedtext_asr(e, vid, lang, resp)
      [] m = "invidious" -> _method_invidious(e, vid, lang, resp)
      [] m = "rapidapi" -> _method_rapidapi(e, vid, lang, resp)
      [] m = "gotranscript" -> _method_gotranscript(e, vid, lang, resp)
      [] m = "youtube_data_api" -> _method_youtube_data_api(e, vid, lang, resp)

\* how an invocation ended, for the history
OutcomeKind(out) ==
    IF out.raised THEN "raised"
    ELSE IF out.value = NoneList \/ out.value = <<>> THEN "nothing"
    ELSE IF IsUnavailable(out.value) THEN "marker"
    ELSE "segments"

(***************************************************************************)
(* YouTubeTranscriptFetcher.get_transcript                                 *)
(***************************************************************************)
\* an entry that leaves self.errors as the last call left it
get_transcript_enter_keep(vid, lang) ==
    /\ video_id' = vid
    /\ language' = lang
    /\ errors' = errors
    /\ transcript' = NoneList
    /\ result' = NoneList
    /\ idx' = 1
    /\ gpc' = "loop"
    /\ calls' = <<>>
    /\ outcomes' = <<>>
    /\ reported' = "none"

\* entry: reset self.errors, transcript = None, start the loop
get_transcript_enter(vid, lang) ==
    /\ video_id' = vid
    /\ language' = lang
    /\ errors' = <<>>
    /\ transcript' = NoneList
    /\ result' = NoneList
    /\ idx' = 1
    /\ gpc' = "loop"
    /\ calls' = <<>>
    /\ outcomes' = <<>>
    /\ reported' = "none"

\* the body of 'for method in methods' without its try/except
loop_body_nocatch(m, out, errs, i, tr) ==
    IF out.raised
    THEN [errors |-> errs, idx |-> i, transcript |-> tr, result |-> NoneList,
          gpc |-> "raised", reported |-> "none"]
    ELSE IF Truthy(out.value)
    THEN [errors |-> errs, idx |-> i, transcript |-> out.value,
          result |-> out.value, gpc |-> "done", reported |-> m]
    ELSE [errors |-> errs, idx |-> i + 1, transcript |-> out.value,
          result |-> NoneList, gpc |-> "loop", reported |-> "none"]

\* the body of 'for method in methods' with an except branch that tries the
\* same method again
loop_body_retry(m, out, errs, i, tr) ==
    IF out.raised
    THEN [errors |-> Append(errs, [method |-> m, error |-> out.error]),
          idx |-> i, transcript |-> tr, result |-> NoneList,
          gpc |-> "loop", reported |-> "none"]
    ELSE IF Truthy(out.value)
    THEN [errors |-> errs, idx |-> i, transcript |-> out.value,
          result |-> out.value, gpc |-> "done", reported |-> m]
    ELSE [errors |-> errs, idx |-> i + 1, transcript |-> out.value,
          result |-> NoneList, gpc |-> "loop", reported |-> "none"]

\* the body of 'for method in methods': what the invocation of method m,
\* ended as out, makes of self.errors, the loop position, transcript, the
\* returned value and the success message
loop_body(m, out, errs, i, tr) ==
    IF out.raised
    THEN [errors |-> Append(errs, [method |-> m, error |-> out.error]),
          idx |-> i + 1, transcript |-> tr, result |-> NoneList,
          gpc |-> "loop", reported |-> "none"]
    ELSE IF Truthy(out.value)
    THEN [errors |-> errs, idx |-> i, transcript |-> out.value,
          result |-> out.value, gpc |-> "done", reported |-> m]
    ELSE [errors |-> errs, idx |-> i + 1, transcript |-> out.value,
          result |-> NoneList, gpc |-> "loop", reported |-> "none"]

\* one iteration of 'for method in methods'
TryMethod ==
    /\ gpc = "loop"
    /\ idx <= Len(methods)
    /\ \E resp \in Responses(methods[idx], env) :
         LET m == methods[idx]
             out == Invoke(m, env, video_id, language, resp)
             nxt == loop_body(m, out, errors, idx, transcript)
         IN  /\ calls' = Append(calls, m)
             /\ outcomes' = Append(outcomes, [kind |-> OutcomeKind(out),
                                              value |-> out.value,
                                              error |-> out.error])
             /\ errors' = nxt.errors
             /\ idx' = nxt.idx
             /\ transcript' = nxt.transcript
             /\ result' = nxt.result
             /\ gpc' = nxt.gpc
             /\ reported' = nxt.reported
    /\ UNCHANGED <<env, video_id, language, pvars, avars, xvars>>

\* after the loop: every method failed
AllFailed ==
    /\ gpc = "loop"
    /\ idx > Len(methods)
    /\ result' = fallback_message(video_id, errors)
    /\ gpc' = "done"
    /\ UNCHANGED <<env, errors, idx, video_id, language, transcript, calls,
                   outcomes, reported, pvars, avars, xvars>>

(***************************************************************************)
(* app.py: the transcript cache and the request handlers                   *)
(***************************************************************************)
MaxRequests == 2
MaxNow == 24
TickHours == 24

\* timedelta(hours=24)
CacheHours == 24

\* language: str = 'en'
DefaultLanguage == <<"e","n">>
Languages == {DefaultLanguage, <<"f","r">>}

\* the url fields the handlers are sent
AppId == <<"d">> \o IdMiddle \o <<"Q">>
AppUrls == {<<>>, NotAUrl, WatchBase \o AppId}

\* two short videos and two language values of a request body
CacheIds == {<<"a","b","c">>, <<"a","b","c",":","e","n">>}
CacheUrls == {ShortsBase \o id : id \in CacheIds}
CacheLanguages == {<<"f","r">>, <<"e","n",":","f","r">>}

Envs == [html_fetcher : BOOLEAN, api_key : BOOLEAN, rapidapi_key : BOOLEAN]

\* f"{video_id}:{language}"
get_cache_key(vid, lang) == vid \o <<":">> \o lang

\* a lookup that does not look at 'expires'
CacheHit_any_age(cache, key, t) == key \in DOMAIN cache

\* cache_key in transcript_cache and datetime.now() < cached_item['expires']
CacheHit(cache, key, t) == key \in DOMAIN cache /\ t < cache[key].expires

\* a store that leaves the unavailable message out of the cache
CacheStore_transcripts_only(cache, key, data, t) ==
    IF Len(data) = 1 /\ "isUnavailableMessage" \in DOMAIN data[1] THEN cache
    ELSE [k \in DOMAIN cache \cup {key} |->
             IF k = key THEN [data |-> data, expires |-> t + CacheHours]
             ELSE cache[k]]

\* transcript_cache[cache_key] = {'data': ..., 'expires': now + 24h}
CacheStore(cache, key, data, t) ==
    [k \in DOMAIN cache \cup {key} |->
        IF k = key THEN [data |-> data, expires |-> t + CacheHours]
        ELSE cache[k]]

ErrorResponse(code, err) ==
    [status |-> code, success |-> FALSE, error |-> err]

\* the result dictionary of process_youtube once the transcript is there
ProcessResponse(vid, t) ==
    [status |-> 200, success |-> TRUE, videoId |-> vid, transcript |-> t,
     transcriptUnavailable |-> IsUnavailable(t)]

\* the body of diagnose_transcript's answer: diagnostics["standard_method"]
DiagnoseResponse(t) ==
    [status |-> 200, success |-> TRUE,
     standard_method |-> [success |-> Len(t) > 0 /\ ~IsUnavailable(t),
                          segments_count |-> Len(t),
                          is_error_message |-> IsUnavailable(t)]]

NoResponse == [status |-> 0]

\* the state of a YouTubeTranscriptFetcher that is not in use: a new one, or
\* none once fetch_transcript has returned and dropped its own
IdleFetcher ==
    /\ errors' = <<>>
    /\ gpc' = "idle"
    /\ idx' = 0
    /\ video_id' = None
    /\ language' = None
    /\ transcript' = NoneList
    /\ result' = NoneList
    /\ outcomes' = <<>>
    /\ reported' = "none"

\* fetcher = HybridFetcher(), and the history of the request cleared
FreshFetcher == IdleFetcher /\ calls' = <<>>

\* 'if not url'
Falsy(v) == v = None \/ v = <<>>

\* 'if video_id == ""' in place of 'if not video_id'
id_rejected_empty(vid) == vid = <<>>

\* 'if not video_id'
id_rejected(vid) == Falsy(vid)

\* POST /api/process up to the call of HybridFetcher.get_transcript, for a
\* body without debug, healthCheck or docs. get_transcript raises nothing,
\* so the 500 answer of the handler's except branch does not occur.
process_youtube(u, lang) ==
    /\ rpc # "fetching"
    /\ nreq < MaxRequests
    /\ nreq' = nreq + 1
    /\ endpoint' = "process"
    /\ req' = [url |-> u, language |-> lang]
    /\ diagnosed' = 0
    /\ UNCHANGED <<env, now, transcript_cache, cachedFor, pvars, xvars>>
    /\ IF Falsy(u)
       THEN /\ response' = ErrorResponse(400, "YouTube URL is required")
            /\ rpc' = "responded"
            /\ cacheLookups' = 0
            /\ FreshFetcher
       ELSE LET vid == extract_video_id(u)
                key == get_cache_key(vid, lang)
            IN  IF id_rejected(vid)
                THEN /\ response' = ErrorResponse(400, "Invalid YouTube URL")
                     /\ rpc' = "responded"
                     /\ cacheLookups' = 0
                     /\ FreshFetcher
                ELSE /\ cacheLookups' = 1
                     /\ IF CacheHit(transcript_cache, key, now)
                        THEN /\ response' =
                                  ProcessResponse(vid, transcript_cache[key].data)
                             /\ rpc' = "responded"
                             /\ FreshFetcher
                        ELSE /\ response' = NoResponse
                             /\ rpc' = "fetching"
                             /\ get_transcript_enter(vid, lang)

\* the rest of POST /api/process, once get_transcript has returned
FetchReturn ==
    /\ rpc = "fetching"
    /\ endpoint = "process"
    /\ gpc = "done"
    /\ transcript_cache' =
          CacheStore(transcript_cache, get_cache_key(video_id, language),
                     result, now)
    /\ cachedFor' =
          [k \in DOMAIN cachedFor \cup {get_cache_key(video_id, language)} |->
              IF k = get_cache_key(video_id, language)
              THEN <<video_id, language>> ELSE cachedFor[k]]
    /\ response' = ProcessResponse(video_id, result)
    /\ rpc' = "responded"
    /\ IdleFetcher
    /\ UNCHANGED <<env, calls, endpoint, req, now, cacheLookups, diagnosed,
                   nreq, pvars, xvars>>

\* POST /api/diagnose up to the call of HybridFetcher.get_transcript:
\* the diagnostics of the OAuth fetcher have run by then
diagnose_transcript(u) ==
    /\ rpc # "fetching"
    /\ nreq < MaxRequests
    /\ nreq' = nreq + 1
    /\ endpoint' = "diagnose"
    /\ req' = [url |-> u, language |-> None]
    /\ cacheLookups' = 0
    /\ UNCHANGED <<env, now, transcript_cache, cachedFor, pvars, xvars>>
    /\ IF Falsy(u)
       THEN /\ response' = ErrorResponse(400, "YouTube URL is required")
            /\ rpc' = "responded"
            /\ diagnosed' = 0
            /\ FreshFetcher
       ELSE LET vid == extract_video_id(u)
            IN  IF id_rejected(vid)
                THEN /\ response' = ErrorResponse(400, "Invalid YouTube URL")
                     /\ rpc' = "responded"
                     /\ diagnosed' = 0
                     /\ FreshFetcher
                ELSE /\ response' = NoResponse
                     /\ rpc' = "fetching"
                     /\ diagnosed' = 1
                     /\ get_transcript_enter(vid, DefaultLanguage)

\* the rest of POST /api/diagnose, once get_transcript has returned
DiagnoseReturn ==
    /\ rpc = "fetching"
    /\ endpoint = "diagnose"
    /\ gpc = "done"
    /\ response' = DiagnoseResponse(result)
    /\ rpc' = "responded"
    /\ IdleFetcher
    /\ UNCHANGED <<env, calls, endpoint, req, now, transcript_cache,
                   cacheLookups, cachedFor, diagnosed, nreq, pvars, xvars>>

\* time passes; get_transcript reads no clock, so the time that passes during
\* a fetch is taken when it returns
Tick ==
    /\ rpc = "fetching" => gpc = "done"
    /\ now < MaxNow
    /\ now' = now + TickHours
    /\ UNCHANGED <<env, rpc, endpoint, req, response, transcript_cache,
                   cacheLookups, cachedFor, diagnosed, nreq, errors, gpc, idx, video_id,
                   language, transcript, result, calls, outcomes, reported,
                   pvars, xvars>>

(***************************************************************************)
(* The retry loops: get_transcript_with_retry                              *)
(* (youtube_transcript_api_fetcher.py) and _get_transcript_from_timedtext  *)
(* (youtube_data_api_fetcher.py)                                           *)
(***************************************************************************)
MaxRetries == 3
JitterSteps == 2

\* max_retries = 3 of _get_transcript_from_timedtext
DataApiMaxRetries == 3

\* time is counted in units of 1 / (2 * JitterSteps) second, so that
\* 0.5 + random.random() takes the values (JitterSteps + 2 * j) units
TimeUnit == 2 * JitterSteps
Jitters == 0..(JitterSteps - 1)

\* the exceptions of youtube_transcript_api, and any other exception
TooManyRequests == <<"TooManyRequests">>
NoTranscriptFound == <<"NoTranscriptFound">>
TranscriptsDisabled == <<"TranscriptsDisabled">>
OtherException == <<"Exception">>
TranscriptWasEmpty == <<"Transcript was empty">>

\* how one invocation of the operation ends: it raises, or it yields items
Raises(e) == [kind |-> "raise", error |-> e, data |-> <<>>]
Yields(d) == [kind |-> "data", error |-> None, data |-> d]
RetrySegments == <<Segment("hello", 1)>>
RetryOutcomes == {Raises(TooManyRequests), Raises(NoTranscriptFound),
                  Raises(TranscriptsDisabled), Raises(OtherException),
                  Yields(<<>>), Yields(RetrySegments)}

\* the timed-text requests of one pass raise, or leave segments or none
TimedtextOutcomes == {Raises(OtherException), Yields(<<>>),
                      Yields(RetrySegments)}

ScriptLen == IF MaxRetries > DataApiMaxRetries THEN MaxRetries
             ELSE DataApiMaxRetries

\* segments.append({"text": ..., "start": ..., "duration": ...})
convert_items(d) ==
    [k \in 1..Len(d) |-> [text |-> d[k].text, start |-> d[k].start,
                          duration |-> d[k].duration]]

\* the list get_transcript_with_retry returns behind its loop
retry_unavailable(vid) ==
    <<[text |-> <<"unavailable_or_rate_limited", vid>>, start |-> 0,
       duration |-> 10, isUnavailableMessage |-> TRUE]>>

\* the backoff with the exponent taken before 'retry_count += 1'
rate_limit_backoff_early(rc, j) == (2 ^ (rc - 1)) * (JitterSteps + 2 * j)

\* 2 ** retry_count * (0.5 + random.random()), with random.random() = j / JitterSteps
rate_limit_backoff(rc, j) == (2 ^ rc) * (JitterSteps + 2 * j)

\* retry_count * 1.5
general_backoff(rc) == rc * 3 * JitterSteps

\* an except branch that counts the failure and sleeps unless it was the last
count_and_wait(e, rc, maxr, wait) ==
    [retry_count |-> rc + 1, last_error |-> e,
     waited |-> IF rc + 1 < maxr THEN <<wait>> ELSE <<>>,
     pc |-> IF rc + 1 < maxr THEN "loop" ELSE "after", retval |-> NoneList]

\* the loop body with a TooManyRequests branch that gives up at once
with_retry_step_giveup(out, rc, maxr, last, j) ==
    IF out.kind = "data" /\ out.data # <<>>
    THEN [retry_count |-> rc, last_error |-> last, waited |-> <<>>,
          pc |-> "done", retval |-> convert_items(out.data)]
    ELSE IF out.kind = "data"
    THEN count_and_wait(TranscriptWasEmpty, rc, maxr, general_backoff(rc + 1))
    ELSE IF out.error \in {TooManyRequests, NoTranscriptFound,
                           TranscriptsDisabled}
    THEN [retry_count |-> rc, last_error |-> out.error, waited |-> <<>>,
          pc |-> "after", retval |-> NoneList]
    ELSE count_and_wait(out.error, rc, maxr, general_backoff(rc + 1))

\* one pass of 'while retry_count < max_retries' of
\* get_transcript_with_retry: the invocation ended as out
with_retry_step(out, rc, maxr, last, j) ==
    IF out.kind = "data" /\ out.data # <<>>
    THEN [retry_count |-> rc, last_error |-> last, waited |-> <<>>,
          pc |-> "done", retval |-> convert_items(out.data)]
    ELSE IF out.kind = "data"
    THEN count_and_wait(TranscriptWasEmpty, rc, maxr, general_backoff(rc + 1))
    ELSE IF out.error = TooManyRequests
    THEN count_and_wait(out.error, rc, maxr, rate_limit_backoff(rc + 1, j))
    ELSE IF out.error \in {NoTranscriptFound, TranscriptsDisabled}
    THEN [retry_count |-> rc, last_error |-> out.error, waited |-> <<>>,
          pc |-> "after", retval |-> NoneList]
    ELSE count_and_wait(out.error, rc, maxr, general_backoff(rc + 1))

\* one pass of the loop of _get_transcript_from_timedtext
timedtext_step(out, rc, maxr, last, j) ==
    IF out.kind = "data" /\ out.data # <<>>
    THEN [retry_count |-> rc, last_error |-> last, waited |-> <<>>,
          pc |-> "done", retval |-> convert_items(out.data)]
    ELSE IF out.kind = "data"
    THEN [retry_count |-> rc + 1, last_error |-> last,
          waited |-> IF rc + 1 < maxr THEN <<rate_limit_backoff(rc + 1, j)>>
                     ELSE <<>>,
          pc |-> "loop", retval |-> NoneList]
    ELSE [retry_count |-> rc + 1, last_error |-> last,
          waited |-> IF rc + 1 < maxr THEN <<general_backoff(rc + 1)>>
                     ELSE <<>>,
          pc |-> "loop", retval |-> NoneList]

\* what a pass leaves in the variables
RetryTake(nxt) ==
    /\ retry_count' = nxt.retry_count
    /\ last_error' = nxt.last_error
    /\ waits' = waits \o nxt.waited
    /\ rtpc' = nxt.pc
    /\ retval' = nxt.retval
    /\ invoked' = invoked + 1
    /\ UNCHANGED <<rfun, max_retries, script, pvars, hvars, avars, tvars,
                   cvars, yvars>>

\* get_transcript_with_retry: one pass of the loop
RetryAttempt ==
    /\ rfun = "transcript_api"
    /\ rtpc = "loop"
    /\ retry_count < max_retries
    /\ \E j \in Jitters :
         RetryTake(with_retry_step(script[invoked + 1], retry_count,
                                   max_retries, last_error, j))

\* get_transcript_with_retry: behind the loop, after a break or when the
\* loop condition fails
RetryGiveUp ==
    /\ rfun = "transcript_api"
    /\ \/ rtpc = "after"
       \/ rtpc = "loop" /\ retry_count >= max_retries
    /\ retval' = retry_unavailable(video_id)
    /\ rtpc' = "done"
    /\ UNCHANGED <<rfun, max_retries, script, retry_count, last_error, invoked,
                   waits, pvars, hvars, avars, tvars, cvars, yvars>>

\* _get_transcript_from_timedtext: one pass of the loop
TimedtextAttempt ==
    /\ rfun = "data_api_timedtext"
    /\ rtpc = "loop"
    /\ retry_count < max_retries
    /\ \E j \in Jitters :
         RetryTake(timedtext_step(script[invoked + 1], retry_count,
                                  max_retries, last_error, j))

\* _get_transcript_from_timedtext: 'return []' behind the loop
TimedtextGiveUp ==
    /\ rfun = "data_api_timedtext"
    /\ rtpc = "loop"
    /\ retry_count >= max_retries
    /\ retval' = <<>>
    /\ rtpc' = "done"
    /\ UNCHANGED <<rfun, max_retries, script, retry_count, last_error, invoked,
                   waits, pvars, hvars, avars, tvars, cvars, yvars>>

(***************************************************************************)
(* One YouTubeTranscriptFetcher, get_transcript called twice with the same *)
(* arguments; every method meets in the second call the response it met in *)
(* the first                                                               *)
(***************************************************************************)
MaxCalls == 2

\* fetcher.get_transcript(video_id, language), the first or a later call
TwiceCall ==
    /\ gpc \in {"idle", "done"}
    /\ ncall < MaxCalls
    /\ ncall' = ncall + 1
    /\ first' = IF ncall = 1 THEN result ELSE first
    /\ \E lang \in (IF ncall = 0 THEN Languages ELSE {language}) :
         get_transcript_enter(AppId, lang)
    /\ UNCHANGED <<env, plan, fetchers, threads, pvars, avars, rvars, tvars,
                   yvars>>

\* the responses method number i can meet in this call
PlannedResponses(i) ==
    IF i <= Len(plan) THEN {plan[i]} ELSE Responses(methods[i], env)

\* one iteration of 'for method in methods'
TwiceTry ==
    /\ gpc = "loop"
    /\ idx <= Len(methods)
    /\ \E resp \in PlannedResponses(idx) :
         LET m == methods[idx]
             out == Invoke(m, env, video_id, language, resp)
             nxt == loop_body(m, out, errors, idx, transcript)
         IN  /\ plan' = IF idx <= Len(plan) THEN plan ELSE Append(plan, resp)
             /\ calls' = Append(calls, m)
             /\ outcomes' = Append(outcomes, [kind |-> OutcomeKind(out),
                                              value |-> out.value,
                                              error |-> out.error])
             /\ errors' = nxt.errors
             /\ idx' = nxt.idx
             /\ transcript' = nxt.transcript
             /\ result' = nxt.result
             /\ gpc' = nxt.gpc
             /\ reported' = nxt.reported
    /\ UNCHANGED <<env, video_id, language, ncall, first, fetchers, threads,
                   pvars, avars, rvars, tvars, yvars>>

(***************************************************************************)
(* Two requests for /api/process at once: each runs fetch_transcript with  *)
(* its own locals; the module-level cache is the same for both             *)
(***************************************************************************)
Requests == {1, 2}

\* the responses followed here: one that raises in the method, one that
\* leaves nothing, one with segments
ConcKinds == {"not_called", "connection_error", "bad_float", "non200", "ok"}
ConcResponses(m, e) ==
    {r \in Responses(m, e) : r.kind \in ConcKinds
                             /\ r.segs \in {<<>>, RetrySegments}}

\* one module-level fetcher in place of 'fetcher = HybridFetcher()'
new_fetcher_singleton(fs) == 1

\* fetcher = HybridFetcher(): the place of the new instance among all
new_fetcher(fs) == Len(fs) + 1

\* the locals of a request that has not started
IdleThread ==
    [pc |-> "idle", video_id |-> None, language |-> None, fetcher |-> 0,
     idx |-> 0, transcript |-> NoneList, result |-> NoneList,
     calls |-> <<>>, outcomes |-> <<>>, hit |-> FALSE]

\* the wrapper of fetch_transcript up to the loop of get_transcript
ConcRequest(t, lang) ==
    /\ threads[t].pc = "idle"
    /\ LET key == get_cache_key(AppId, lang)
           inst == new_fetcher(fetchers)
           last == IF inst > Len(fetchers) THEN inst ELSE Len(fetchers)
       IN  IF CacheHit(transcript_cache, key, now)
           THEN /\ threads' = [threads EXCEPT ![t] =
                      [IdleThread EXCEPT !.pc = "responded",
                                         !.video_id = AppId,
                                         !.language = lang,
                                         !.result = transcript_cache[key].data,
                                         !.hit = TRUE]]
                /\ UNCHANGED fetchers
           ELSE /\ threads' = [threads EXCEPT ![t] =
                      [IdleThread EXCEPT !.pc = "loop",
                                         !.video_id = AppId,
                                         !.language = lang,
                                         !.fetcher = inst,
                                         !.idx = 1]]
                /\ fetchers' = [k \in 1..last |->
                                  IF k = inst THEN [errors |-> <<>>]
                                  ELSE fetchers[k]]
    /\ UNCHANGED <<plan, ncall, first, pvars, hvars, avars, rvars, tvars,
                   yvars>>

\* one iteration of 'for method in methods' in request t
ConcTry(t) ==
    /\ threads[t].pc = "loop"
    /\ threads[t].idx <= Len(methods)
    /\ \E resp \in ConcResponses(methods[threads[t].idx], env) :
         LET me == threads[t]
             m == methods[me.idx]
             out == Invoke(m, env, me.video_id, me.language, resp)
             nxt == loop_body(m, out, fetchers[me.fetcher].errors, me.idx,
                              me.transcript)
         IN  /\ fetchers' = [fetchers EXCEPT ![me.fetcher].errors = nxt.errors]
             /\ threads' = [threads EXCEPT ![t] =
                   [me EXCEPT !.idx = nxt.idx,
                              !.transcript = nxt.transcript,
                              !.result = nxt.result,
                              !.pc = IF nxt.gpc = "done" THEN "returning"
                                     ELSE "loop",
                              !.calls = Append(me.calls, m),
                              !.outcomes = Append(me.outcomes,
                                  [kind |-> OutcomeKind(out),
                                   value |-> out.value,
                                   error |-> out.error])]]
    /\ UNCHANGED <<plan, ncall, first, pvars, hvars, avars, rvars, tvars,
                   yvars>>

\* behind the loop of request t: every method failed
ConcAllFailed(t) ==
    /\ threads[t].pc = "loop"
    /\ threads[t].idx > Len(methods)
    /\ LET me == threads[t]
       IN  threads' = [threads EXCEPT ![t] =
              [me EXCEPT !.pc = "returning",
                         !.result = fallback_message(me.video_id,
                                        fetchers[me.fetcher].errors)]]
    /\ UNCHANGED <<fetchers, plan, ncall, first, pvars, hvars, avars, rvars,
                   tvars, yvars>>

\* get_transcript of request t has returned: the wrapper stores and returns
ConcReturn(t) ==
    /\ threads[t].pc = "returning"
    /\ transcript_cache' =
          CacheStore(transcript_cache,
                     get_cache_key(threads[t].video_id, threads[t].language),
                     threads[t].result, now)
    /\ threads' = [threads EXCEPT ![t].pc = "responded"]
    /\ UNCHANGED <<fetchers, plan, ncall, first, pvars, hvars, rvars, tvars,
                   yvars, rpc, endpoint, req, response, now, cacheLookups, cachedFor,
                   diagnosed, nreq>>

(***************************************************************************)
(* ThirdPartyTranscriptFetcher.get_transcript                              *)
(* (third_party_transcript_fetcher.py)                                     *)
(***************************************************************************)
\* what a request answers: requests.get raises, the body is empty, the body
\* is no XML, or the body is an XML document with <text> or <track> nodes
Body(kind) == [kind |-> kind, segs |-> <<>>, tracks |-> <<>>, bad |-> FALSE]
XmlTexts(segs) == [Body("xml") EXCEPT !.segs = segs]
XmlTracks(tracks) == [Body("xml") EXCEPT !.tracks = tracks]

\* a document with a <text> node whose start is no number
XmlBadFloat == [XmlTexts(RetrySegments) EXCEPT !.bad = TRUE]

TextBodies == {Body("raise"), Body("empty"), Body("garbage"), XmlTexts(<<>>),
               XmlTexts(RetrySegments), XmlBadFloat}
ListBodies == {Body("raise"), Body("empty"), Body("garbage"), XmlTracks(<<>>),
               XmlTracks(<<"en">>), XmlTracks(<<"en", "fr">>)}

\* the answers to the request for the language, for the track list, for a
\* listed language and for the automated captions
ThirdPartyInputs ==
    [first : TextBodies, list : ListBodies, lang : TextBodies, asr : TextBodies]

\* 'not response.text or response.text.strip() == ""'
IsBlank(b) == b.kind = "empty"

\* the list returned by the outer except branch
third_party_unavailable(vid) ==
    <<[text |-> <<"unavailable", vid>>, start |-> 0, duration |-> 10,
       isUnavailableMessage |-> TRUE]>>

\* the mock transcript of 'if not segments'
not_parsable_segment(vid) ==
    <<[text |-> <<"not_parsable", vid>>, start |-> 0, duration |-> 10]>>

Failure == [failed |-> TRUE, body |-> Body("raise")]
Got(b) == [failed |-> FALSE, body |-> b]

\* lines 72-112: the response whose text is parsed next
pick_response(in) ==
    IF in.first.kind = "raise" THEN Failure
    ELSE IF ~IsBlank(in.first) THEN Got(in.first)
    ELSE IF in.list.kind = "raise" \/ IsBlank(in.list) THEN Failure
    ELSE IF in.list.kind = "garbage" THEN Failure
    ELSE IF in.list.tracks = <<>> THEN Got(in.first)
    ELSE IF in.lang.kind = "raise" THEN Failure
    ELSE IF ~IsBlank(in.lang) THEN Got(in.lang)
    ELSE Got(in.first)

\* lines 115-134: the document whose <text> nodes are read
parse_document(in, picked) ==
    IF picked.failed THEN Failure
    ELSE IF picked.body.kind = "xml" THEN picked
    ELSE IF in.asr.kind = "xml" THEN Got(in.asr)
    ELSE Failure

\* float(text.get('start', 0)) raises
HasBadFloat(b) == b.bad

\* lines 137-179: the segments of the document, or what stands in for them
read_segments(vid, doc) ==
    IF doc.failed THEN third_party_unavailable(vid)
    ELSE IF HasBadFloat(doc.body) THEN third_party_unavailable(vid)
    ELSE IF doc.body.segs = <<>> THEN not_parsable_segment(vid)
    ELSE convert_items(doc.body.segs)

third_party_get_transcript(vid, lang, in) ==
    read_segments(vid, parse_document(in, pick_response(in)))

ThirdPartyCall ==
    /\ tpc = "call"
    /\ tp_out' = third_party_get_transcript(video_id, language, tp_in)
    /\ tpc' = "done"
    /\ UNCHANGED <<tp_in, pvars, hvars, avars, rvars, cvars, yvars>>

(***************************************************************************)
(* youtube_oauth_fetcher.py: YouTubeTranscriptFetcher.get_transcript       *)
(***************************************************************************)
\* what the call meets: the stored token, the captions.list call, the
\* timed-text requests, the transcript URL, the mirrors, the watch page
OAuthInputs ==
    [token : {"absent", "invalid", "valid"},
     list : {"raise", "empty", "items"},
     direct : {"raise", "listed", "plain", "asr", "nothing"},
     from_url : {"raise", "non200", "bad_float", "no_text", "segments"},
     invidious : {"raise", "none", "segments"},
     html : {"raise", "none", "json_segments", "xml_segments", "xml_empty"}]

OAuthSegments == <<Segment("hello", 1)>>
OAuthTracks == <<[language |-> DefaultLanguage]>>

\* the value a helper hands back, or the exception that leaves it, with the
\* requests it made (one entry for each kind of request)
Handed(v, rs) == [raised |-> FALSE, value |-> v, requests |-> rs]
Escapes(rs) == [raised |-> TRUE, value |-> <<>>, requests |-> rs]

\* get_youtube_service: a service object only for a token that decodes
get_youtube_service(in) == in.token = "valid"

\* _list_caption_tracks without its try/except
_list_caption_tracks_uncaught(in) ==
    IF ~get_youtube_service(in) THEN Handed(<<>>, <<>>)
    ELSE IF in.list = "items" THEN Handed(OAuthTracks, <<"captions_list">>)
    ELSE IF in.list = "raise" THEN Escapes(<<"captions_list">>)
    ELSE Handed(<<>>, <<"captions_list">>)

\* _list_caption_tracks: [] without a service and on any exception
_list_caption_tracks(in) ==
    IF ~get_youtube_service(in) THEN Handed(<<>>, <<>>)
    ELSE IF in.list = "items" THEN Handed(OAuthTracks, <<"captions_list">>)
    ELSE Handed(<<>>, <<"captions_list">>)

\* _get_direct_transcript_url: the track list, then the plain URLs, then the
\* kind=asr URLs; None on any exception
_get_direct_transcript_url(in) ==
    CASE in.direct = "raise" -> Handed(None, <<"timedtext_list">>)
      [] in.direct = "listed" ->
             Handed(<<"timedtext">>, <<"timedtext_list">>)
      [] in.direct = "plain" ->
             Handed(<<"timedtext">>, <<"timedtext_list", "timedtext">>)
      [] in.direct = "asr" ->
             Handed(<<"timedtext_asr">>,
                    <<"timedtext_list", "timedtext", "timedtext_asr">>)
      [] OTHER -> Handed(None, <<"timedtext_list", "timedtext",
                                 "timedtext_asr">>)

\* _get_transcript_from_url: [] on every failure
_get_transcript_from_url(in) ==
    IF in.from_url = "segments" THEN Handed(OAuthSegments, <<"transcript_url">>)
    ELSE Handed(<<>>, <<"transcript_url">>)

\* _get_transcript_from_invidious: [] when no instance has segments
_get_transcript_from_invidious(in) ==
    IF in.invidious = "segments" THEN Handed(OAuthSegments, <<"invidious">>)
    ELSE Handed(<<>>, <<"invidious">>)

\* the HTML approach of get_transcript: whether it returns, and what
html_last_resort(in) ==
    CASE in.html \in {"json_segments", "xml_segments"} ->
             [returns |-> TRUE, value |-> OAuthSegments,
              requests |-> <<"watch_page", "caption_track">>]
      [] in.html = "xml_empty" ->
             [returns |-> TRUE, value |-> <<>>,
              requests |-> <<"watch_page", "caption_track">>]
      [] OTHER -> [returns |-> FALSE, value |-> <<>>,
                   requests |-> <<"watch_page">>]

\* Method 1: captions = self._list_caption_tracks(video_id)
OAuthList ==
    /\ f_pc = "list"
    /\ LET r == _list_caption_tracks(f_in)
       IN  /\ f_local' = r.value
           /\ f_requests' = f_requests \o r.requests
           /\ f_pc' = IF r.raised THEN "raised" ELSE "direct"
    /\ UNCHANGED <<f_in, f_out, nvars, pvars, hvars, avars, rvars, tvars,
                   cvars>>

\* Method 2: the direct transcript URL and the segments behind it
OAuthDirect ==
    /\ f_pc = "direct"
    /\ LET u == _get_direct_transcript_url(f_in)
           s == _get_transcript_from_url(f_in)
           got == u.value # None /\ s.value # <<>>
       IN  /\ f_requests' = f_requests \o u.requests \o
                            (IF u.value # None THEN s.requests ELSE <<>>)
           /\ f_out' = IF got THEN s.value ELSE f_out
           /\ f_pc' = IF got THEN "done" ELSE "invidious"
    /\ UNCHANGED <<f_in, f_local, nvars, pvars, hvars, avars, rvars, tvars,
                   cvars>>

\* Method 3: the Invidious instances
OAuthInvidious ==
    /\ f_pc = "invidious"
    /\ LET s == _get_transcript_from_invidious(f_in)
       IN  /\ f_requests' = f_requests \o s.requests
           /\ f_out' = IF s.value # <<>> THEN s.value ELSE f_out
           /\ f_pc' = IF s.value # <<>> THEN "done"
                      ELSE IF f_local # <<>> THEN "html" ELSE "fallback"
    /\ UNCHANGED <<f_in, f_local, nvars, pvars, hvars, avars, rvars, tvars,
                   cvars>>

\* 'if captions:' the HTML approach as last resort
OAuthHtml ==
    /\ f_pc = "html"
    /\ LET r == html_last_resort(f_in)
       IN  /\ f_requests' = f_requests \o r.requests
           /\ f_out' = IF r.returns THEN r.value ELSE f_out
           /\ f_pc' = IF r.returns THEN "done" ELSE "fallback"
    /\ UNCHANGED <<f_in, f_local, nvars, pvars, hvars, avars, rvars, tvars,
                   cvars>>

\* the fallback message as a single segment
OAuthFallback ==
    /\ f_pc = "fallback"
    /\ f_out' = _create_error_response(video_id)
    /\ f_pc' = "done"
    /\ UNCHANGED <<f_in, f_local, f_requests, nvars, pvars, hvars, avars,
                   rvars, tvars, cvars>>

(***************************************************************************)
(* youtube_transcript_fetcher.py: YouTubeTranscriptFetcher.get_transcript  *)
(***************************************************************************)
\* what a timed-text request meets: an exception of requests.get, a status
\* other than 200 or a blank body, a body that is no XML, a document without
\* <text> nodes, a start attribute that is no number, or <text> nodes
BodyKinds == {"raise", "empty", "unparsable", "no_text", "bad_float",
              "segments"}

\* what the call meets: the InnerTube approach, the request for the
\* language, the track list, the request for the listed language, and the
\* request with kind=asr
BasicInputs ==
    [innertube : {"none", "segments"},
     primary : BodyKinds,
     list : {"raise", "empty", "unparsable", "no_tracks", "tracks"},
     lang : BodyKinds,
     asr : BodyKinds]

\* 'response.status_code != 200 or not response.text or
\*  response.text.strip() == ""'
Unusable(body) == body = "empty"

\* transcript = self.get_transcript_using_innertube(video_id, language)
BasicInnertube ==
    /\ f_pc = "innertube"
    /\ f_requests' = Append(f_requests, "watch_page")
    /\ f_out' = IF f_in.innertube = "segments" THEN OAuthSegments ELSE f_out
    /\ f_pc' = IF f_in.innertube = "segments" THEN "done" ELSE "timedtext"
    /\ UNCHANGED <<f_in, f_local, nvars, pvars, hvars, avars, rvars, tvars,
                   cvars>>

\* the request for the timed text of the language
BasicTimedtext ==
    /\ f_pc = "timedtext"
    /\ f_requests' = Append(f_requests, "timedtext")
    /\ f_local' = f_in.primary
    /\ f_pc' = CASE f_in.primary = "raise" -> "fallback"
                 [] Unusable(f_in.primary) -> "list"
                 [] OTHER -> "parse"
    /\ UNCHANGED <<f_in, f_out, nvars, pvars, hvars, avars, rvars, tvars,
                   cvars>>

\* the track list and, when it names a track, the request for that language
BasicList ==
    /\ f_pc = "list"
    /\ f_requests' = f_requests \o
                     (IF f_in.list = "tracks"
                      THEN <<"timedtext_list", "timedtext_lang">>
                      ELSE <<"timedtext_list">>)
    /\ f_local' = IF f_in.list = "tracks" THEN f_in.lang ELSE f_local
    /\ f_pc' = CASE f_in.list = "empty" -> "asr"
                 [] f_in.list = "tracks" /\ f_in.lang # "raise" -> "parse"
                 [] OTHER -> "fallback"
    /\ UNCHANGED <<f_in, f_out, nvars, pvars, hvars, avars, rvars, tvars,
                   cvars>>

\* 'Try auto-generated captions as a last resort'
BasicAsr ==
    /\ f_pc = "asr"
    /\ f_requests' = Append(f_requests, "timedtext_asr")
    /\ f_local' = f_in.asr
    /\ f_pc' = IF f_in.asr = "raise" \/ Unusable(f_in.asr) THEN "fallback"
               ELSE "parse"
    /\ UNCHANGED <<f_in, f_out, nvars, pvars, hvars, avars, rvars, tvars,
                   cvars>>

\* ET.fromstring(response.text) and the loop over its <text> nodes
BasicParse ==
    /\ f_pc = "parse"
    /\ f_out' = IF f_local = "segments" THEN OAuthSegments ELSE f_out
    /\ f_pc' = IF f_local = "segments" THEN "done" ELSE "fallback"
    /\ UNCHANGED <<f_in, f_local, f_requests, nvars, pvars, hvars, avars,
                   rvars, tvars, cvars>>

\* 'except Exception': the fallback message as a single segment
BasicFallback ==
    /\ f_pc = "fallback"
    /\ f_out' = _create_error_response(video_id)
    /\ f_pc' = "done"
    /\ UNCHANGED <<f_in, f_local, f_requests, nvars, pvars, hvars, avars,
                   rvars, tvars, cvars>>

(***************************************************************************)
(* Caption tracks: the choice of a track by language                       *)
(*   youtube_html_fetcher.py, youtube_data_api_captions.py                 *)
(***************************************************************************)
MaxTracks == 3
TrackLanguages == Languages \cup {<<"d","e">>}

\* a caption track: its language, whether it carries a non-empty baseUrl,
\* whether it is auto-generated (kind / trackKind 'asr')
Tracks == [languageCode : TrackLanguages, baseUrl : BOOLEAN, asr : BOOLEAN]
TrackLists == UNION {[1..n -> Tracks] : n \in 0..MaxTracks}

\* 'for track in caption_tracks: if track_lang == lang: ... break': the place
\* of the first track of the language, 0 when there is none
first_track(tracks, lang) ==
    LET found == {k \in 1..Len(tracks) : tracks[k].languageCode = lang}
    IN  IF found = {} THEN 0
        ELSE CHOOSE k \in found : \A j \in found : k <= j

\* a choice that goes from the requested language straight to the first
\* track
html_select_no_english(tracks, lang) ==
    LET exact == first_track(tracks, lang)
        url1 == IF exact # 0 /\ tracks[exact].baseUrl THEN exact ELSE 0
    IN  IF url1 # 0 THEN url1
        ELSE IF tracks # <<>> /\ tracks[1].baseUrl THEN 1
        ELSE 0

\* YouTubeHTMLTranscriptFetcher.get_transcript, the choice of base_url: the
\* place of the track whose baseUrl is taken, 0 when base_url stays None
html_select(tracks, lang) ==
    LET exact == first_track(tracks, lang)
        url1 == IF exact # 0 /\ tracks[exact].baseUrl THEN exact ELSE 0
        en == first_track(tracks, DefaultLanguage)
        url2 == IF url1 # 0 THEN url1
                ELSE IF en # 0 /\ tracks[en].baseUrl THEN en
                ELSE 0
    IN  IF url2 # 0 THEN url2
        ELSE IF tracks # <<>> /\ tracks[1].baseUrl THEN 1
        ELSE 0

\* YouTubeDataAPITranscriptFetcher.get_transcript, 'for track in
\* caption_tracks' from track k on, with target_track at place target
RECURSIVE data_api_loop(_, _, _, _)
data_api_loop(tracks, lang, k, target) ==
    IF k > Len(tracks) THEN target
    ELSE IF tracks[k].languageCode = lang /\ (~tracks[k].asr \/ target = 0)
    THEN IF ~tracks[k].asr THEN k
         ELSE data_api_loop(tracks, lang, k + 1, k)
    ELSE data_api_loop(tracks, lang, k + 1, target)

\* the place of target_track, 0 when there is no track
data_api_select(tracks, lang) ==
    LET target == data_api_loop(tracks, lang, 1, 0)
    IN  IF target = 0 /\ tracks # <<>> THEN 1 ELSE target

(***************************************************************************)
(* SRT: YouTubeDataAPITranscriptFetcher.parse_srt                          *)
(* A document is a sequence of tokens: the characters of the text, "NL"    *)
(* and "CR" for the line ends, a digit for a sequence number, "ARROW" for  *)
(* '-->', and one token for each timestamp HH:MM:SS,mmm.  Times are in     *)
(* thousandths of a second.                                                *)
(***************************************************************************)
MaxBlocks == 2

SrtTimes == {"T0", "T1", "T2"}
\* the fields of the timestamps 00:00:00,000  00:00:01,500  01:02:03,004
Hms(t) ==
    CASE t = "T0" -> [h |-> 0, m |-> 0, s |-> 0, ms |-> 0]
      [] t = "T1" -> [h |-> 0, m |-> 0, s |-> 1, ms |-> 500]
      [] t = "T2" -> [h |-> 1, m |-> 2, s |-> 3, ms |-> 4]

SrtDigits == <<"1", "2", "3", "4">>
\* the lines of text of a block
SrtTexts == {<< <<"a">> >>,
             << <<"a">>, <<"a", " ", "b">> >>,
             << <<"b">>, <<"a">> >>}
\* the timestamps of a block; in the last the end precedes the start
SrtSpans == {[start |-> "T0", end |-> "T1"], [start |-> "T1", end |-> "T2"],
             [start |-> "T1", end |-> "T0"]}
LF == <<"NL">>
CRLF == <<"CR", "NL">>

\* the blocks of a document: both timestamps and one or more lines of text
SrtBlocks == [span : SrtSpans, lines : SrtTexts]
SrtDocs ==
    [blocks : UNION {[1..n -> SrtBlocks] : n \in 0..MaxBlocks},
     eol : {LF, CRLF},
     final : BOOLEAN]

\* the lines of a block, each with its line end
RECURSIVE RenderLines(_, _)
RenderLines(lines, eol) ==
    IF lines = <<>> THEN <<>>
    ELSE Head(lines) \o eol \o RenderLines(Tail(lines), eol)

\* block number k and the empty line behind it
RenderBlock(b, k, eol) ==
    <<SrtDigits[k]>> \o eol \o <<b.span.start, " ", "ARROW", " ", b.span.end>> \o eol
    \o RenderLines(b.lines, eol) \o eol

RECURSIVE RenderBlocks(_, _, _)
RenderBlocks(blocks, k, eol) ==
    IF k > Len(blocks) THEN <<>>
    ELSE RenderBlock(blocks[k], k, eol) \o RenderBlocks(blocks, k + 1, eol)

\* the text of the file: with the empty line behind the last block, or
\* ending with the last line of text
RenderSrt(doc) ==
    LET all == RenderBlocks(doc.blocks, 1, doc.eol)
    IN  IF doc.final \/ all = <<>> THEN all
        ELSE SubSeq(all, 1, Len(all) - Len(doc.eol))

\* \s and \d of the pattern; a timestamp ends with digits
IsWs(c) == c \in {" ", "NL", "CR"}
IsDigit(c) == c \in {"1", "2", "3", "4"}
IsTime(c) == c \in SrtTimes

\* the first place from i on that holds no white space
RECURSIVE WsEnd(_, _)
WsEnd(s, i) == IF i <= Len(s) /\ IsWs(s[i]) THEN WsEnd(s, i + 1) ELSE i

\* the first place from i on that holds no digit
RECURSIVE DigitsEnd(_, _)
DigitsEnd(s, i) ==
    IF i <= Len(s) /\ IsDigit(s[i]) THEN DigitsEnd(s, i + 1) ELSE i

HasNL(s, a, b) == \E q \in a..b : s[q] = "NL"
LastNL(s, a, b) ==
    CHOOSE q \in a..b : s[q] = "NL" /\ \A r \in (q + 1)..b : s[r] # "NL"

\* ([\s\S]*?)(?=\n\s*\n|\Z): the first place from m on that is the end of
\* the text or a line end with a second line end in the white space behind it
RECURSIVE TextEnd(_, _)
TextEnd(s, m) ==
    IF m > Len(s) THEN m
    ELSE IF s[m] = "NL" /\ HasNL(s, m + 1, WsEnd(s, m + 1) - 1) THEN m
    ELSE TextEnd(s, m + 1)

\* the pattern of parse_srt matched at place i:
\*   (\d+)\s*\n(timestamp)\s*-->\s*(timestamp)\s*\n([\s\S]*?)(?=\n\s*\n|\Z)
SrtMatch(s, i) ==
    LET j == DigitsEnd(s, i + 1)
        w == WsEnd(s, j)
        a == WsEnd(s, w + 1)
        b == WsEnd(s, a + 1)
        e == WsEnd(s, b + 1)
        ok == /\ i <= Len(s)
              /\ IsDigit(s[i]) \/ IsTime(s[i])
              /\ w > j
              /\ s[w - 1] = "NL"
              /\ w <= Len(s)
              /\ IsTime(s[w])
              /\ a <= Len(s)
              /\ s[a] = "ARROW"
              /\ b <= Len(s)
              /\ IsTime(s[b])
              /\ HasNL(s, b + 1, e - 1)
    IN  IF ok
        THEN [ok |-> TRUE, start_time |-> s[w], end_time |-> s[b],
              from |-> LastNL(s, b + 1, e - 1) + 1,
              to |-> TextEnd(s, LastNL(s, b + 1, e - 1) + 1)]
        ELSE [ok |-> FALSE, start_time |-> "T0", end_time |-> "T0",
              from |-> 0, to |-> 0]

\* re.findall(pattern, srt_content) from place pos on
RECURSIVE re_findall(_, _)
re_findall(s, pos) ==
    LET starts == {i \in pos..Len(s) : SrtMatch(s, i).ok}
    IN  IF starts = {} THEN <<>>
        ELSE LET i == CHOOSE k \in starts : \A j \in starts : k <= j
                 m == SrtMatch(s, i)
             IN  <<m>> \o re_findall(s, m.to)

\* str.strip()
RECURSIVE lstrip(_)
lstrip(t) == IF t # <<>> /\ IsWs(Head(t)) THEN lstrip(Tail(t)) ELSE t
RECURSIVE rstrip(_)
rstrip(t) ==
    IF t # <<>> /\ IsWs(t[Len(t)]) THEN rstrip(SubSeq(t, 1, Len(t) - 1)) ELSE t
strip(t) == rstrip(lstrip(t))

\* str.replace('\n', ' ')
replace_newlines(t) == [k \in 1..Len(t) |-> IF t[k] = "NL" THEN " " ELSE t[k]]

\* _time_to_seconds
_time_to_seconds(t) ==
    Hms(t).h * 3600000 + Hms(t).m * 60000 + Hms(t).s * 1000 + Hms(t).ms

\* parse_srt
parse_srt(s) ==
    LET matches == re_findall(s, 1)
    IN  [k \in 1..Len(matches) |->
            [text |-> replace_newlines(
                          strip(SubSeq(s, matches[k].from, matches[k].to - 1))),
             start |-> _time_to_seconds(matches[k].start_time),
             duration |-> _time_to_seconds(matches[k].end_time)
                          - _time_to_seconds(matches[k].start_time)]]

\* download_caption: the content, '' when the download fails
download_caption(in) == IF in.download THEN RenderSrt(in.doc) ELSE <<>>

\* YouTubeDataAPITranscriptFetcher.get_transcript: the fallback message
\* without tracks, the parsed download of the chosen track otherwise
data_api_get_transcript(vid, in) ==
    IF in.tracks = <<>> THEN _create_error_response(vid)
    ELSE parse_srt(download_caption(in))

(***************************************************************************)
(* Timed-text XML: _method_direct_timedtext, from ET.fromstring on         *)
(***************************************************************************)
MaxNodes == 2

\* an attribute or key that may be missing
Absent == [present |-> FALSE, value |-> 0]
Given(v) == [present |-> TRUE, value |-> v]
\* dict.get(key, 0)
get0(a) == IF a.present THEN a.value ELSE 0

\* the text of a node as written in the document, by token: a character or
\* an XML reference
RawTexts == {<<>>, <<"a">>, <<" ", "a", " ">>, <<"a", "&amp;", "b">>,
             <<"&amp;", "#", "3", "9", ";">>, <<"&lt;", "b", "&gt;">>,
             <<"&amp;", "a", "m", "p", ";">>}
TextNodes == [start : {Absent, Given(0), Given(2)},
              dur : {Absent, Given(1)},
              text : RawTexts]
XmlDocuments == UNION {[1..n -> TextNodes] : n \in 0..MaxNodes}

\* text.text: the parser resolves the references of the document
et_text(raw) ==
    [k \in 1..Len(raw) |->
        CASE raw[k] = "&amp;" -> "&"
          [] raw[k] = "&lt;" -> "<"
          [] raw[k] = "&gt;" -> ">"
          [] OTHER -> raw[k]]

\* whether the characters of t from place k on spell ref
SpellsAt(t, k, ref) ==
    /\ k + Len(ref) - 1 <= Len(t)
    /\ SubSeq(t, k, k + Len(ref) - 1) = ref

\* html.unescape for the references &amp; &lt; &#39;
RECURSIVE html_unescape(_)
html_unescape(t) ==
    IF t = <<>> THEN <<>>
    ELSE IF SpellsAt(t, 1, <<"&", "a", "m", "p", ";">>)
    THEN <<"&">> \o html_unescape(SubSeq(t, 6, Len(t)))
    ELSE IF SpellsAt(t, 1, <<"&", "l", "t", ";">>)
    THEN <<"<">> \o html_unescape(SubSeq(t, 5, Len(t)))
    ELSE IF SpellsAt(t, 1, <<"&", "#", "3", "9", ";">>)
    THEN <<"'">> \o html_unescape(SubSeq(t, 6, Len(t)))
    ELSE <<Head(t)>> \o html_unescape(Tail(t))

\* the loop without html.unescape
timedtext_segments_raw(doc) ==
    [k \in 1..Len(doc) |->
        [text |-> strip(et_text(doc[k].text)),
         start |-> get0(doc[k].start),
         duration |-> get0(doc[k].dur)]]

\* the loop over root.findall('.//text')
timedtext_segments(doc) ==
    [k \in 1..Len(doc) |->
        [text |-> strip(html_unescape(et_text(doc[k].text))),
         start |-> get0(doc[k].start),
         duration |-> get0(doc[k].dur)]]

\* 'if segments: return segments', None otherwise
timedtext_normalise(doc) ==
    IF timedtext_segments(doc) # <<>> THEN timedtext_segments(doc)
    ELSE NoneList

(***************************************************************************)
(* JSON3: YouTubeHTMLTranscriptFetcher.get_transcript, from                *)
(* caption_response.json() on                                              *)
(***************************************************************************)
MaxEvents == 2

\* a seg with or without the key utf8
Utf8Segs == {[has_utf8 |-> FALSE, utf8 |-> <<>>],
             [has_utf8 |-> TRUE, utf8 |-> <<"a">>],
             [has_utf8 |-> TRUE, utf8 |-> <<"NL">>]}
SegArrays == UNION {[1..n -> Utf8Segs] : n \in 0..2}
\* an event with or without the key segs, and with or without its times
Events ==
    [has_segs : {TRUE}, segs : SegArrays,
     tStartMs : {Absent, Given(1500)}, dDurationMs : {Absent, Given(500)}]
    \cup [has_segs : {FALSE}, segs : {<<>>},
          tStartMs : {Given(1500)}, dDurationMs : {Given(500)}]
EventStreams == UNION {[1..n -> Events] : n \in 0..MaxEvents}

\* text_parts of an event
RECURSIVE text_parts(_)
text_parts(segs) ==
    IF segs = <<>> THEN <<>>
    ELSE (IF Head(segs).has_utf8 THEN <<Head(segs).utf8>> ELSE <<>>)
         \o text_parts(Tail(segs))

\* ''.join(text_parts)
RECURSIVE join(_)
join(parts) == IF parts = <<>> THEN <<>> ELSE Head(parts) \o join(Tail(parts))

\* the body of 'for event in events' with a segment for every event that
\* has segs
json3_event_always(event) ==
    IF ~event.has_segs THEN <<>>
    ELSE <<[text |-> strip(join(text_parts(event.segs))),
            start |-> get0(event.tStartMs),
            duration |-> get0(event.dDurationMs)]>>

\* the body of 'for event in events': the segments it appends; times are in
\* thousandths of a second
json3_event(event) ==
    IF ~event.has_segs THEN <<>>
    ELSE IF text_parts(event.segs) = <<>> THEN <<>>
    ELSE <<[text |-> strip(join(text_parts(event.segs))),
            start |-> get0(event.tStartMs),
            duration |-> get0(event.dDurationMs)]>>

RECURSIVE json3_segments(_)
json3_segments(events) ==
    IF events = <<>> THEN <<>>
    ELSE json3_event(Head(events)) \o json3_segments(Tail(events))

\* 'if segments: return segments', the error response otherwise
json3_normalise(vid, events) ==
    IF json3_segments(events) # <<>> THEN json3_segments(events)
    ELSE _create_error_response(vid)

(***************************************************************************)
(* The track choices and the normalisers applied to one input              *)
(***************************************************************************)
NormaliseTake(out) ==
    /\ n_pc = "call"
    /\ n_out' = out
    /\ n_pc' = "done"
    /\ UNCHANGED <<n_fun, n_in, fvars, pvars, hvars, avars, rvars, tvars,
                   cvars>>

HtmlSelect ==
    /\ n_fun = "html_select"
    /\ NormaliseTake(html_select(n_in.tracks, n_in.language))

DataApiSelect ==
    /\ n_fun = "data_api_select"
    /\ NormaliseTake(data_api_select(n_in.tracks, n_in.language))

DataApiGetTranscript ==
    /\ n_fun = "data_api_get_transcript"
    /\ NormaliseTake(data_api_get_transcript(video_id, n_in))

ParseSrt ==
    /\ n_fun = "parse_srt"
    /\ NormaliseTake(parse_srt(RenderSrt(n_in)))

TimedtextNormalise ==
    /\ n_fun = "timedtext"
    /\ NormaliseTake(timedtext_normalise(n_in))

Json3Normalise ==
    /\ n_fun = "json3"
    /\ NormaliseTake(json3_normalise(video_id, n_in))

(***************************************************************************)
(* Specifications                                                          *)
(***************************************************************************)
\* the retry loops not in use
OffRetry ==
    /\ rfun = "none"
    /\ max_retries = 0
    /\ script = <<>>
    /\ retry_count = 0
    /\ last_error = None
    /\ invoked = 0
    /\ waits = <<>>
    /\ retval = NoneList
    /\ rtpc = "off"

\* ThirdPartyTranscriptFetcher not in use
OffThirdParty ==
    /\ tp_in = <<>>
    /\ tp_out = NoneList
    /\ tpc = "off"

\* no fetcher called twice, no requests at once
OffShared ==
    /\ plan = <<>>
    /\ ncall = 0
    /\ first = NoneList
    /\ fetchers = <<>>
    /\ threads = <<>>

\* the step-by-step get_transcript not in use
OffFetch ==
    /\ f_in = <<>>
    /\ f_pc = "off"
    /\ f_local = <<>>
    /\ f_requests = <<>>
    /\ f_out = NoneList

\* track selection and the normalisers not in use
OffNormalise ==
    /\ n_fun = "none"
    /\ n_in = <<>>
    /\ n_out = <<>>
    /\ n_pc = "off"

InitFetcher ==
    /\ errors = <<>>
    /\ gpc = "idle"
    /\ idx = 0
    /\ video_id = None
    /\ language = None
    /\ transcript = NoneList
    /\ result = NoneList
    /\ calls = <<>>
    /\ outcomes = <<>>
    /\ reported = "none"

InitApp ==
    /\ rpc = "idle"
    /\ endpoint = "none"
    /\ req = [url |-> None, language |-> None]
    /\ response = NoResponse
    /\ transcript_cache = <<>>
    /\ now = 0
    /\ cacheLookups = 0
    /\ cachedFor = <<>>
    /\ diagnosed = 0
    /\ nreq = 0

\* the service: requests arrive one after another
Init ==
    /\ env \in Envs
    /\ InitFetcher
    /\ InitApp
    /\ OffRetry
    /\ OffThirdParty
    /\ OffShared
    /\ OffFetch
    /\ OffNormalise
    /\ url = None
    /\ parsed = Unset
    /\ ppc = "off"

Next ==
    \/ \E u \in AppUrls, lang \in Languages : process_youtube(u, lang)
    \/ \E u \in AppUrls : diagnose_transcript(u)
    \/ TryMethod
    \/ AllFailed
    \/ FetchReturn
    \/ DiagnoseReturn
    \/ Tick

Spec == Init /\ [][Next]_vars

\* extract_video_id applied to every input
InitParse ==
    /\ url \in Inputs
    /\ parsed = Unset
    /\ ppc = "call"
    /\ env = [html_fetcher |-> TRUE, api_key |-> FALSE, rapidapi_key |-> FALSE]
    /\ InitFetcher
    /\ InitApp
    /\ OffRetry
    /\ OffThirdParty
    /\ OffShared
    /\ OffFetch
    /\ OffNormalise

NextParse == ExtractCall

SpecParse == InitParse /\ [][NextParse]_vars

\* the retry loops applied to every script of invocation outcomes
InitRetry ==
    /\ \/ /\ rfun = "transcript_api"
          /\ max_retries \in 0..MaxRetries
          /\ script \in [1..ScriptLen -> RetryOutcomes]
       \/ /\ rfun = "data_api_timedtext"
          /\ max_retries = DataApiMaxRetries
          /\ script \in [1..ScriptLen -> TimedtextOutcomes]
    /\ retry_count = 0
    /\ last_error = None
    /\ invoked = 0
    /\ waits = <<>>
    /\ retval = NoneList
    /\ rtpc = "loop"
    /\ env = [html_fetcher |-> FALSE, api_key |-> FALSE, rapidapi_key |-> FALSE]
    /\ errors = <<>>
    /\ gpc = "idle"
    /\ idx = 0
    /\ video_id = AppId
    /\ language = DefaultLanguage
    /\ transcript = NoneList
    /\ result = NoneList
    /\ calls = <<>>
    /\ outcomes = <<>>
    /\ reported = "none"
    /\ InitApp
    /\ url = None
    /\ parsed = Unset
    /\ ppc = "off"
    /\ OffThirdParty
    /\ OffShared
    /\ OffFetch
    /\ OffNormalise

NextRetry ==
    \/ RetryAttempt
    \/ RetryGiveUp
    \/ TimedtextAttempt
    \/ TimedtextGiveUp

SpecRetry == InitRetry /\ [][NextRetry]_vars

\* the service without the HTML fetcher and without keys, asked for short
\* videos in languages of any spelling
InitCache ==
    /\ env = [html_fetcher |-> FALSE, api_key |-> FALSE, rapidapi_key |-> FALSE]
    /\ InitFetcher
    /\ InitApp
    /\ url = None
    /\ parsed = Unset
    /\ ppc = "off"
    /\ OffRetry
    /\ OffThirdParty
    /\ OffShared
    /\ OffFetch
    /\ OffNormalise

NextCache ==
    \/ \E u \in CacheUrls, lang \in CacheLanguages : process_youtube(u, lang)
    \/ TryMethod
    \/ AllFailed
    \/ FetchReturn
    \/ Tick

SpecCache == InitCache /\ [][NextCache]_vars

\* one fetcher, called twice
InitTwice ==
    /\ env \in Envs
    /\ InitFetcher
    /\ InitApp
    /\ url = None
    /\ parsed = Unset
    /\ ppc = "off"
    /\ OffRetry
    /\ OffThirdParty
    /\ OffShared
    /\ OffFetch
    /\ OffNormalise

NextTwice ==
    \/ TwiceCall
    \/ TwiceTry
    \/ AllFailed

SpecTwice == InitTwice /\ [][NextTwice]_vars

\* two requests at once, without the HTML fetcher and without keys
InitConc ==
    /\ env = [html_fetcher |-> FALSE, api_key |-> FALSE, rapidapi_key |-> FALSE]
    /\ InitFetcher
    /\ InitApp
    /\ url = None
    /\ parsed = Unset
    /\ ppc = "off"
    /\ OffRetry
    /\ OffThirdParty
    /\ OffFetch
    /\ OffNormalise
    /\ plan = <<>>
    /\ ncall = 0
    /\ first = NoneList
    /\ fetchers = <<>>
    /\ threads = [t \in Requests |-> IdleThread]

NextConc ==
    \/ \E t \in Requests, lang \in Languages : ConcRequest(t, lang)
    \/ \E t \in Requests : ConcTry(t)
    \/ \E t \in Requests : ConcAllFailed(t)
    \/ \E t \in Requests : ConcReturn(t)

SpecConc == InitConc /\ [][NextConc]_vars

\* ThirdPartyTranscriptFetcher.get_transcript applied to every input
InitThirdParty ==
    /\ tp_in \in ThirdPartyInputs
    /\ tp_out = NoneList
    /\ tpc = "call"
    /\ env = [html_fetcher |-> FALSE, api_key |-> FALSE, rapidapi_key |-> FALSE]
    /\ errors = <<>>
    /\ gpc = "idle"
    /\ idx = 0
    /\ video_id = AppId
    /\ language = DefaultLanguage
    /\ transcript = NoneList
    /\ result = NoneList
    /\ calls = <<>>
    /\ outcomes = <<>>
    /\ reported = "none"
    /\ InitApp
    /\ url = None
    /\ parsed = Unset
    /\ ppc = "off"
    /\ OffRetry
    /\ OffShared
    /\ OffFetch
    /\ OffNormalise

NextThirdParty == ThirdPartyCall

SpecThirdParty == InitThirdParty /\ [][NextThirdParty]_vars

\* a service that runs nothing of the hybrid fetcher and of the handlers
Quiet ==
    /\ env = [html_fetcher |-> FALSE, api_key |-> FALSE, rapidapi_key |-> FALSE]
    /\ errors = <<>>
    /\ gpc = "idle"
    /\ idx = 0
    /\ video_id = AppId
    /\ language = DefaultLanguage
    /\ transcript = NoneList
    /\ result = NoneList
    /\ calls = <<>>
    /\ outcomes = <<>>
    /\ reported = "none"
    /\ InitApp
    /\ url = None
    /\ parsed = Unset
    /\ ppc = "off"

\* get_transcript of the OAuth fetcher applied to every input
InitOAuth ==
    /\ f_in \in OAuthInputs
    /\ f_pc = "list"
    /\ f_local = <<>>
    /\ f_requests = <<>>
    /\ f_out = NoneList
    /\ Quiet
    /\ OffRetry
    /\ OffThirdParty
    /\ OffShared
    /\ OffNormalise

NextOAuth ==
    \/ OAuthList
    \/ OAuthDirect
    \/ OAuthInvidious
    \/ OAuthHtml
    \/ OAuthFallback

SpecOAuth == InitOAuth /\ [][NextOAuth]_vars

\* the strategies that need a credential: the hybrid fetcher with and without
\* its keys, called on one video, and the OAuth fetcher with and without a
\* token
InitCredentials == InitTwice \/ InitOAuth

NextCredentials ==
    \/ f_pc = "off" /\ TwiceCall
    \/ f_pc = "off" /\ TwiceTry
    \/ f_pc = "off" /\ AllFailed
    \/ OAuthList
    \/ OAuthDirect
    \/ OAuthInvidious
    \/ OAuthHtml
    \/ OAuthFallback

SpecCredentials == InitCredentials /\ [][NextCredentials]_vars

\* get_transcript of youtube_transcript_fetcher.py applied to every input
InitBasic ==
    /\ f_in \in BasicInputs
    /\ f_pc = "innertube"
    /\ f_local = "none"
    /\ f_requests = <<>>
    /\ f_out = NoneList
    /\ Quiet
    /\ OffRetry
    /\ OffThirdParty
    /\ OffShared
    /\ OffNormalise

NextBasic ==
    \/ BasicInnertube
    \/ BasicTimedtext
    \/ BasicList
    \/ BasicAsr
    \/ BasicParse
    \/ BasicFallback

SpecBasic == InitBasic /\ [][NextBasic]_vars

\* the track choices and the normalisers applied to every input
InitNormalise ==
    /\ \/ /\ n_fun \in {"html_select", "data_api_select"}
          /\ n_in \in [tracks : TrackLists, language : TrackLanguages]
       \/ /\ n_fun = "data_api_get_transcript"
          /\ n_in \in [tracks : {<<>>, <<[languageCode |-> DefaultLanguage,
                                          baseUrl |-> TRUE, asr |-> FALSE]>>},
                        download : BOOLEAN,
                        doc : SrtDocs]
       \/ /\ n_fun = "parse_srt"
          /\ n_in \in SrtDocs
       \/ /\ n_fun = "timedtext"
          /\ n_in \in XmlDocuments
       \/ /\ n_fun = "json3"
          /\ n_in \in EventStreams
    /\ n_out = <<>>
    /\ n_pc = "call"
    /\ Quiet
    /\ OffRetry
    /\ OffThirdParty
    /\ OffShared
    /\ OffFetch

NextNormalise ==
    \/ HtmlSelect
    \/ DataApiSelect
    \/ DataApiGetTranscript
    \/ ParseSrt
    \/ TimedtextNormalise
    \/ Json3Normalise

SpecNormalise == InitNormalise /\ [][NextNormalise]_vars

(***************************************************************************)
(* The Invidious instances: youtube_hybrid_fetcher.py _method_invidious    *)
(* and youtube_proxy_fetcher.py _get_transcript_from_invidious             *)
(***************************************************************************)
HybridInstances ==
    <<"invidious.snopyta.org", "yewtu.be", "vid.puffyan.us",
      "invidious.kavin.rocks">>
ProxyInstances ==
    <<"invidious.snopyta.org", "yewtu.be", "invidious.kavin.rocks",
      "vid.puffyan.us", "invidious.namazso.eu", "inv.riverside.rocks">>

\* 'for instance in instances[:2]' and 'for instance in instances[:3]'
HybridTried == 2
ProxyTried == 3

\* what one instance answers: the request raises, a status other than 200,
\* a caption list that is empty, or caption content with segments
InstanceAnswers == {"exception", "non200", "no_captions", "segments"}

Hosts(instances) == {instances[i] : i \in DOMAIN instances}

\* the two functions with what they meet: the list, the length of the slice,
\* the value returned when no instance gave segments, the answer of each host
MirrorInputs ==
    {[which |-> "hybrid", instances |-> HybridInstances,
      tried |-> HybridTried, nothing |-> NoneList, answers |-> a] :
        a \in [Hosts(HybridInstances) -> InstanceAnswers]}
    \cup
    {[which |-> "proxy", instances |-> ProxyInstances,
      tried |-> ProxyTried, nothing |-> <<>>, answers |-> a] :
        a \in [Hosts(ProxyInstances) -> InstanceAnswers]}

\* random.shuffle(instances) followed by instances[:k]: every sequence of k
\* different hosts of the list
shuffled_slice(instances, k) ==
    {s \in [1..k -> Hosts(instances)] :
        \A i, j \in 1..k : i # j => s[i] # s[j]}

\* the body of the loop without its try/except
try_instance_uncaught(in, instance) ==
    [raised |-> in.answers[instance] = "exception",
     segments |-> IF in.answers[instance] = "segments"
                  THEN OAuthSegments ELSE <<>>]

\* the body of the loop for one instance: the segments it gives, none on a
\* status other than 200, an empty caption list or an exception
try_instance(in, instance) ==
    [raised |-> FALSE,
     segments |-> IF in.answers[instance] = "segments"
                  THEN OAuthSegments ELSE <<>>]

\* random.shuffle(instances); for instance in instances[:k]
MirrorShuffle ==
    /\ f_pc = "shuffle"
    /\ f_local' \in shuffled_slice(f_in.instances, f_in.tried)
    /\ f_pc' = "loop"
    /\ UNCHANGED <<f_in, f_requests, f_out, nvars, pvars, hvars, avars,
                   rvars, tvars, cvars>>

\* one pass of the loop: the request to the next instance of the slice, and
\* 'if segments: return segments'
MirrorQuery ==
    /\ f_pc = "loop"
    /\ Len(f_requests) < Len(f_local)
    /\ LET instance == f_local[Len(f_requests) + 1]
           r == try_instance(f_in, instance)
       IN  /\ f_requests' = Append(f_requests, instance)
           /\ f_out' = IF r.segments # <<>> THEN r.segments ELSE f_out
           /\ f_pc' = IF r.raised THEN "raised"
                      ELSE IF r.segments # <<>> THEN "done" ELSE "loop"
    /\ UNCHANGED <<f_in, f_local, nvars, pvars, hvars, avars, rvars, tvars,
                   cvars>>

\* the loop ran out: 'return None' (hybrid), 'return []' (proxy)
MirrorExhausted ==
    /\ f_pc = "loop"
    /\ Len(f_requests) = Len(f_local)
    /\ f_out' = f_in.nothing
    /\ f_pc' = "done"
    /\ UNCHANGED <<f_in, f_local, f_requests, nvars, pvars, hvars, avars,
                   rvars, tvars, cvars>>

\* the Invidious strategy of both fetchers applied to every input
InitMirrors ==
    /\ f_in \in MirrorInputs
    /\ f_pc = "shuffle"
    /\ f_local = <<>>
    /\ f_requests = <<>>
    /\ f_out = NoneList
    /\ Quiet
    /\ OffRetry
    /\ OffThirdParty
    /\ OffShared
    /\ OffNormalise

NextMirrors ==
    \/ MirrorShuffle
    \/ MirrorQuery
    \/ MirrorExhausted

SpecMirrors == InitMirrors /\ [][NextMirrors]_vars

(***************************************************************************)
(* app.py: cache_transcript.wrapper around a function that may raise       *)
(***************************************************************************)
\* how the wrapped function ends: it raises, or it returns segments or the
\* unavailable message
FuncOutcomes(vid) ==
    {Raises(OtherException), Yields(RetrySegments),
     Yields(fallback_message(vid, <<>>))}

\* the calls of the wrapper: the arguments and what func will do if called
WrapperCalls ==
    {[video_id |-> vid, language |-> lang, func |-> out] :
        vid \in CacheIds, lang \in CacheLanguages, out \in
            UNION {FuncOutcomes(v) : v \in CacheIds}}

\* a wrapper that stores in a 'finally' clause
wrapper_after_call_finally(cache, key, out, t) ==
    IF out.kind = "raise"
    THEN [raised |-> TRUE, value |-> NoneList,
          cache |-> CacheStore(cache, key, NoneList, t)]
    ELSE [raised |-> FALSE, value |-> out.data,
          cache |-> CacheStore(cache, key, out.data, t)]

\* result = func(...); transcript_cache[cache_key] = {...}; return result.
\* An exception of func leaves the wrapper at the call
wrapper_after_call(cache, key, out, t) ==
    IF out.kind = "raise"
    THEN [raised |-> TRUE, value |-> NoneList, cache |-> cache]
    ELSE [raised |-> FALSE, value |-> out.data,
          cache |-> CacheStore(cache, key, out.data, t)]

\* the wrapper up to the call of func: the lookup
WrapperEnter ==
    /\ n_fun = "cache_transcript"
    /\ n_pc # "calling"
    /\ \E c \in WrapperCalls :
         LET key == get_cache_key(c.video_id, c.language)
         IN  /\ n_in' = c
             /\ IF CacheHit(transcript_cache, key, now)
                THEN /\ n_out' = transcript_cache[key].data
                     /\ n_pc' = "returned"
                ELSE /\ n_out' = NoneList
                     /\ n_pc' = "calling"
    /\ UNCHANGED <<n_fun, fvars, pvars, hvars, avars, rvars, tvars, cvars>>

\* func has returned or raised: the rest of the wrapper
WrapperLeave ==
    /\ n_fun = "cache_transcript"
    /\ n_pc = "calling"
    /\ LET r == wrapper_after_call(transcript_cache,
                    get_cache_key(n_in.video_id, n_in.language),
                    n_in.func, now)
       IN  /\ transcript_cache' = r.cache
           /\ n_out' = r.value
           /\ n_pc' = IF r.raised THEN "raised" ELSE "returned"
    /\ UNCHANGED <<n_fun, n_in, fvars, pvars, hvars, rvars, tvars, cvars,
                   rpc, endpoint, req, response, now, cacheLookups,
                   cachedFor, diagnosed, nreq>>

\* the wrapper called again and again, with time passing
InitWrapper ==
    /\ n_fun = "cache_transcript"
    /\ n_in = [video_id |-> None, language |-> None,
               func |-> Raises(OtherException)]
    /\ n_out = NoneList
    /\ n_pc = "idle"
    /\ Quiet
    /\ OffRetry
    /\ OffThirdParty
    /\ OffShared
    /\ OffFetch

NextWrapper ==
    \/ WrapperEnter
    \/ WrapperLeave
    \/ n_fun = "cache_transcript" /\ Tick

SpecWrapper == InitWrapper /\ [][NextWrapper]_vars

(***************************************************************************)
(* app.py: generate_blog, and process_youtube from the transcript fetch on *)
(***************************************************************************)
\* the text of a segment, character by character
BlogTexts == {<<>>, <<" ">>, <<"NL", " ">>, <<"h", "i">>, <<" ", "h">>}
BlogSegments == [text : BlogTexts, start : {0}, duration : {1}]
MaxBlogSegs == 2

\* what fetch_transcript hands to the handler
BlogTranscripts ==
    UNION {[1..n -> BlogSegments] : n \in 0..MaxBlogSegs}
    \cup {fallback_message(AppId, <<>>), requires_oauth_response(AppId)}

\* the value of 'generateBlog' in the body, and of GEMINI_API_KEY
GenerateBlogValues == {"absent", "true", "false", "null", "0", "1", "", "no"}
GeminiKeys == {"unset", "", "key"}

\* what the generative-language API does with the request
GeminiAnswers == {"connection_error", "non200", "no_text", "content"}
GeminiContents ==
    {<<"#", " ", "T", "NL", "w", " ", "w">>, <<"\"", "T", "\"">>}

BlogInputs ==
    [transcript : BlogTranscripts,
     generateBlog : GenerateBlogValues,
     gemini_key : GeminiKeys,
     oauth_token : BOOLEAN,
     fetch : {"returns", "raises"},
     gemini : GeminiAnswers,
     content : GeminiContents]

\* data.get('generateBlog', True) as a condition: true without the key, and
\* for true, a number other than 0 and a string that is not empty
should_generate_blog(v) == v \in {"absent", "true", "1", "no"}

\* GEMINI_API_KEY as a condition
key_configured(k) == k \notin {"unset", ""}

\* ' '.join(parts)
RECURSIVE join_space(_)
join_space(parts) ==
    IF parts = <<>> THEN <<>>
    ELSE IF Len(parts) = 1 THEN parts[1]
    ELSE parts[1] \o <<" ">> \o join_space(Tail(parts))

\* lines = blog_content.split('\n'); lines[0]
RECURSIVE first_line(_)
first_line(s) ==
    IF s = <<>> \/ Head(s) = "NL" THEN <<>>
    ELSE <<Head(s)>> \o first_line(Tail(s))

\* str.lstrip('#') and str.strip('"\'')
RECURSIVE lstrip_of(_, _)
lstrip_of(s, cs) ==
    IF s # <<>> /\ Head(s) \in cs THEN lstrip_of(Tail(s), cs) ELSE s
RECURSIVE rstrip_of(_, _)
rstrip_of(s, cs) ==
    IF s # <<>> /\ s[Len(s)] \in cs
    THEN rstrip_of(SubSeq(s, 1, Len(s) - 1), cs) ELSE s

\* the title generate_blog takes from the first line
blog_title(content) ==
    LET line == first_line(content)
        bare == IF line # <<>> /\ Head(line) = "#"
                THEN strip(lstrip_of(line, {"#"})) ELSE line
    IN  rstrip_of(lstrip_of(bare, {"\"", "'"}), {"\"", "'"})

\* len(blog_content.split())
word_count(s) ==
    Cardinality({i \in 1..Len(s) :
                    ~IsWs(s[i]) /\ (i = 1 \/ IsWs(s[i - 1]))})

Placeholder(title, why, vid) ==
    [title |-> title, content |-> why, videoId |-> vid, wordCount |-> 0]

\* what generate_blog does: the blog it returns or the exception it raises,
\* and whether it has posted to the generative-language API
BlogReturns(b) == [raised |-> FALSE, value |-> b, posted |-> FALSE]
BlogPosted(b) == [raised |-> FALSE, value |-> b, posted |-> TRUE]
BlogRaises(e) == [raised |-> TRUE, value |-> e, posted |-> TRUE]

\* the call of the API and what generate_blog makes of the answer
gemini_call(vid, answer, content) ==
    CASE answer = "connection_error" -> BlogRaises("ConnectionError")
      [] answer = "non200" -> BlogRaises("Gemini API error")
      [] answer = "no_text" -> BlogRaises("Empty response from Gemini API")
      [] OTHER -> BlogPosted([title |-> blog_title(content),
                              content |-> content, videoId |-> vid,
                              wordCount |-> word_count(content)])

\* generate_blog without 'if not full_text.strip()'
generate_blog_unguarded(trans, vid, answer, content) ==
    IF IsUnavailable(trans)
    THEN BlogReturns(Placeholder("Transcript Unavailable",
                                 "the transcript is unavailable", vid))
    ELSE gemini_call(vid, answer, content)

\* generate_blog(transcript, video_id)
generate_blog(trans, vid, answer, content) ==
    IF IsUnavailable(trans)
    THEN BlogReturns(Placeholder("Transcript Unavailable",
                                 "the transcript is unavailable", vid))
    ELSE IF strip(join_space([k \in 1..Len(trans) |-> trans[k].text])) = <<>>
    THEN BlogReturns(Placeholder("Empty Transcript",
                                 "the transcript is empty", vid))
    ELSE gemini_call(vid, answer, content)

\* d with d[key] = value
With(d, key, value) ==
    [k \in DOMAIN d \cup {key} |-> IF k = key THEN value ELSE d[k]]

\* result = {"success": True, "videoId": video_id, ...}
NewResult(vid) == [success |-> TRUE, videoId |-> vid]

\* the try block of the fetch, for a transcript that came back
fetched(res, trans, token) ==
    LET r1 == With(res, "transcript", trans)
        r2 == IF IsUnavailable(trans)
              THEN With(r1, "transcriptUnavailable", TRUE) ELSE r1
    IN  IF IsUnavailable(trans) /\ ~token
        THEN With(With(r2, "oauthMissing", TRUE), "oauthSetupUrl", "/oauth/init")
        ELSE r2

\* 'except Exception as e' of the fetch
fetch_failed(res, e) ==
    With(With(res, "error", e), "transcriptUnavailable", TRUE)

\* an except branch of the blog that answers without the transcript
blog_failed_bare(res, e) ==
    [success |-> FALSE, videoId |-> res.videoId, error |-> e,
     blogGenerationFailed |-> TRUE]

\* 'except Exception as blog_error'
blog_failed(res, e) ==
    With(With(res, "error", e), "blogGenerationFailed", TRUE)

\* result["blog"] = blog, with the note for an unavailable transcript
blog_added(res, b) ==
    With(res, "blog",
         IF "transcriptUnavailable" \in DOMAIN res
         THEN With(b, "note", "generated without an actual video transcript")
         ELSE b)

\* transcript = fetch_transcript(video_id, language) and its try block
BlogFetch ==
    /\ f_pc = "fetch"
    /\ f_requests' = Append(f_requests, "fetch_transcript")
    /\ IF f_in.fetch = "raises"
       THEN /\ f_out' = [status |-> 500,
                         body |-> fetch_failed(NewResult(video_id),
                                               "fetch error")]
            /\ f_pc' = "done"
            /\ UNCHANGED f_local
       ELSE /\ f_local' = fetched(NewResult(video_id), f_in.transcript,
                                  f_in.oauth_token)
            /\ f_pc' = "blog"
            /\ UNCHANGED f_out
    /\ UNCHANGED <<f_in, nvars, pvars, hvars, avars, rvars, tvars, cvars>>

\* 'if should_generate_blog and GEMINI_API_KEY:' taken
BlogGenerate ==
    /\ f_pc = "blog"
    /\ should_generate_blog(f_in.generateBlog)
    /\ key_configured(f_in.gemini_key)
    /\ LET b == generate_blog(f_in.transcript, video_id, f_in.gemini,
                              f_in.content)
       IN  /\ f_requests' = f_requests \o <<"generate_blog">> \o
                  (IF b.posted THEN <<"generativelanguage">> ELSE <<>>)
           /\ f_out' = [status |-> 200,
                        body |-> IF b.raised THEN blog_failed(f_local, b.value)
                                 ELSE blog_added(f_local, b.value)]
    /\ f_pc' = "done"
    /\ UNCHANGED <<f_in, f_local, nvars, pvars, hvars, avars, rvars, tvars,
                   cvars>>

\* the condition fails: return jsonify(result)
BlogSkip ==
    /\ f_pc = "blog"
    /\ ~(should_generate_blog(f_in.generateBlog)
         /\ key_configured(f_in.gemini_key))
    /\ f_out' = [status |-> 200, body |-> f_local]
    /\ f_pc' = "done"
    /\ UNCHANGED <<f_in, f_local, f_requests, nvars, pvars, hvars, avars,
                   rvars, tvars, cvars>>

\* process_youtube from the fetch on, for every transcript, body and key
InitBlog ==
    /\ f_in \in BlogInputs
    /\ f_pc = "fetch"
    /\ f_local = <<>>
    /\ f_requests = <<>>
    /\ f_out = NoneList
    /\ Quiet
    /\ OffRetry
    /\ OffThirdParty
    /\ OffShared
    /\ OffNormalise

NextBlog ==
    \/ BlogFetch
    \/ BlogGenerate
    \/ BlogSkip

SpecBlog == InitBlog /\ [][NextBlog]_vars

(***************************************************************************)
(* youtube_oauth_fetcher.py: diagnose_transcript_access                    *)
(***************************************************************************)
\* what the call meets: the stored token, videos.list, captions.list (an
\* HttpError, another exception, no items, items), the tracks listed,
\* captions.download, the timed-text requests and the mirrors
DiagInputs ==
    [token : {"absent", "invalid", "valid"},
     info : {"none", "found"},
     list : {"http_error", "raise", "empty", "items"},
     tracks : {"en", "other", "no_id"},
     download : {"http_error", "raise", "bytes"},
     direct : {"raise", "listed", "plain", "asr", "nothing"},
     invidious : {"raise", "none", "segments"}]

\* _get_youtube_video_info: {} without a service, without items and on any
\* exception
_get_youtube_video_info(in) == get_youtube_service(in) /\ in.info = "found"

\* diagnostics = {..., "steps": [], "transcript_found": False, "error": None}
NewDiagnostics == [steps |-> <<>>, transcript_found |-> FALSE, error |-> "None"]

\* diagnostics["steps"].append({"step": name, "status": "attempting"})
step_started(d, name) ==
    [d EXCEPT !.steps = Append(@, [step |-> name, status |-> "attempting"])]

\* diagnostics["steps"][-1]["status"] = status
step_ended(d, status) ==
    [d EXCEPT !.steps[Len(d.steps)].status = status]

\* the caption id of step 3: the English track, else the first one
caption_id(in) == IF in.tracks = "no_id" THEN None ELSE <<in.tracks>>

\* where the function goes once a step has run: it returns, or goes on
DiagTake(d, pc, reqs) ==
    /\ f_local' = d
    /\ f_pc' = pc
    /\ f_requests' = f_requests \o reqs
    /\ f_out' = IF pc = "done" THEN d ELSE f_out
    /\ UNCHANGED <<f_in, nvars, pvars, hvars, avars, rvars, tvars, cvars>>

\* Step 1: Check if we can get video info
DiagVideoInfo ==
    /\ f_pc = "info"
    /\ LET d == step_started(f_local, "Get video info")
       IN  IF _get_youtube_video_info(f_in)
           THEN DiagTake(step_ended(d, "success"), "list", <<"videos_list">>)
           ELSE DiagTake(step_ended(d, "failed"), "done",
                         IF get_youtube_service(f_in) THEN <<"videos_list">>
                         ELSE <<>>)

\* Step 2: Check if caption tracks exist using the Data API
DiagListTracks ==
    /\ f_pc = "list"
    /\ LET d == step_started(f_local, "List caption tracks")
       IN  IF ~get_youtube_service(f_in)
           THEN DiagTake(step_ended(d, "failed"), "done", <<>>)
           ELSE CASE f_in.list = "http_error" ->
                       DiagTake([step_ended(d, "failed") EXCEPT
                                    !.error = "HttpError"],
                                "alternatives", <<"captions_list">>)
                  [] f_in.list = "raise" ->
                       DiagTake([d EXCEPT !.error = "Exception"], "done",
                                <<"captions_list">>)
                  [] f_in.list = "empty" ->
                       DiagTake(step_ended(d, "success"), "done",
                                <<"captions_list">>)
                  [] OTHER ->
                       DiagTake(step_ended(d, "success"), "download",
                                <<"captions_list">>)

\* Step 3: Try to download a caption track
DiagDownload ==
    /\ f_pc = "download"
    /\ LET d == step_started(f_local, "Download caption track")
       IN  IF caption_id(f_in) = None
           THEN DiagTake(step_ended(d, "failed"), "alternatives", <<>>)
           ELSE CASE f_in.download = "bytes" ->
                       DiagTake([step_ended(d, "success") EXCEPT
                                    !.transcript_found = TRUE],
                                "done", <<"captions_download">>)
                  [] f_in.download = "http_error" ->
                       DiagTake([step_ended(d, "failed") EXCEPT
                                    !.error = "HttpError"],
                                "alternatives", <<"captions_download">>)
                  [] OTHER ->
                       DiagTake([d EXCEPT !.error = "Exception"], "done",
                                <<"captions_download">>)

\* Step 4: Try alternative methods if OAuth method failed
DiagAlternatives ==
    /\ f_pc = "alternatives"
    /\ LET d == step_started(f_local, "Try alternative methods")
           u == _get_direct_transcript_url(f_in)
           s == _get_transcript_from_invidious(f_in)
           found == [step_ended(d, "success") EXCEPT !.transcript_found = TRUE]
       IN  IF u.value # None
           THEN DiagTake(found, "done", u.requests)
           ELSE IF s.value # <<>>
           THEN DiagTake(found, "done", u.requests \o s.requests)
           ELSE DiagTake(step_ended(d, "failed"), "done",
                         u.requests \o s.requests)

\* diagnose_transcript_access applied to every input
InitDiagnose ==
    /\ f_in \in DiagInputs
    /\ f_pc = "info"
    /\ f_local = NewDiagnostics
    /\ f_requests = <<>>
    /\ f_out = NoneList
    /\ Quiet
    /\ OffRetry
    /\ OffThirdParty
    /\ OffShared
    /\ OffNormalise

NextDiagnose ==
    \/ DiagVideoInfo
    \/ DiagListTracks
    \/ DiagDownload
    \/ DiagAlternatives

SpecDiagnose == InitDiagnose /\ [][NextDiagnose]_vars

(***************************************************************************)
(* Properties of get_transcript (specification Spec)                       *)
(***************************************************************************)
\* the entries of errorDetails of a returned list, none when it has no such key
Diagnostics(t) ==
    IF "errorDetails" \in DOMAIN t[1] THEN t[1].errorDetails ELSE <<>>

Failed(k) == outcomes[k].kind \in {"nothing", "raised"}

\* C1: as soon as a strategy method has returned a transcript, get_transcript
\* is done, its result is that list unchanged, and no later method of the
\* list has been invoked.
C1_ShortCircuit ==
    \A k \in 1..Len(outcomes) :
        outcomes[k].kind = "segments" =>
            /\ gpc = "done"
            /\ result = outcomes[k].value
            /\ k = Len(outcomes)
            /\ Len(calls) = k

\* an earlier strategy failed, the next one returned segments, later ones
\* were left alone
C1_Witness ==
    /\ gpc = "done"
    /\ Len(outcomes) >= 2
    /\ Failed(Len(outcomes) - 1)
    /\ outcomes[Len(outcomes)].kind = "segments"
    /\ Len(calls) < Len(methods)

\* C2: an unavailable result is returned only after every strategy of the
\* list has been tried; a strategy that fails, the HTML strategy included,
\* makes the orchestrator go on to the next one.
C2_UnavailableOnlyAfterAll ==
    (gpc = "done" /\ IsUnavailable(result)) => Len(calls) = Len(methods)

\* C3: when every strategy failed, by raising or by returning nothing, the
\* result is unavailable and its diagnostics hold one entry per strategy
\* tried, in order.
C3_DiagnosticsPerStrategy ==
    (gpc = "done" /\ \A k \in 1..Len(outcomes) : Failed(k)) =>
        /\ IsUnavailable(result)
        /\ Len(Diagnostics(result)) = Len(calls)
        /\ \A k \in 1..Len(calls) : Diagnostics(result)[k][1] = calls[k]

\* C4: no exception of a strategy leaves get_transcript; an exception is
\* recorded in self.errors under the name of the strategy that raised it,
\* the next strategy of the list is still attempted, and the call returns a
\* non-empty list.
C4_Isolation ==
    /\ gpc \in {"idle", "loop", "done"}
    /\ \A k \in 1..Len(outcomes) :
          outcomes[k].kind = "raised" =>
              /\ \E j \in 1..Len(errors) :
                    errors[j] = [method |-> calls[k],
                                 error |-> outcomes[k].error]
              /\ (gpc = "done" /\ k < Len(methods)) => Len(calls) > k
    /\ Len(errors) = Cardinality({k \in 1..Len(outcomes) :
                                      outcomes[k].kind = "raised"})
    /\ gpc = "done" => (result # NoneList /\ Len(result) >= 1)

\* a strategy raised and a later one was invoked before the call returned
C4_Witness ==
    /\ gpc = "done"
    /\ \E k \in 1..Len(outcomes) :
          outcomes[k].kind = "raised" /\ Len(calls) > k

\* C5: a returned list is either the one-element unavailability marker or a
\* non-empty list without any marker element, and no strategy is reported
\* as successful when what it returned is the marker.
C5_Unambiguous ==
    gpc = "done" =>
        /\ \/ IsUnavailable(result)
           \/ /\ Len(result) >= 1
              /\ \A k \in 1..Len(result) : ~GetFlag(result[k])
        /\ reported # "none" => ~IsUnavailable(result)

(***************************************************************************)
(* Properties of the request handlers (specification Spec)                 *)
(***************************************************************************)
\* C6: a request to /api/process or /api/diagnose whose url yields no video
\* identifier ends with the 400 'Invalid YouTube URL' error, without a cache
\* lookup, a strategy invocation or a diagnostics run.
C6_InvalidUrlRejected ==
    (rpc = "responded" /\ ~Falsy(req.url) /\ Falsy(extract_video_id(req.url)))
        => /\ response = ErrorResponse(400, "Invalid YouTube URL")
           /\ cacheLookups = 0
           /\ calls = <<>>
           /\ diagnosed = 0
           /\ gpc = "idle"

\* /api/process has answered a url without identifier
C6_Witness ==
    /\ rpc = "responded"
    /\ endpoint = "process"
    /\ req.url = NotAUrl
    /\ response.status = 400

(***************************************************************************)
(* Properties of extract_video_id (specification SpecParse)                *)
(***************************************************************************)
\* exactly 11 characters of [A-Za-z0-9_-]
IsIdentifier(s) == Len(s) = 11 /\ \A k \in 1..Len(s) : s[k] \in IdChars

IsPrefix(b, s) == Len(b) <= Len(s) /\ SubSeq(s, 1, Len(b)) = b

\* the markers by which a URL shape is recognised
Mark_youtu_be == <<"y","o","u","t","u",Dot,"b","e","/">>
Mark_v == <<"v","/">>
Mark_u == <<"/","u","/",WordCls,"/">>
Mark_embed == <<"e","m","b","e","d","/">>
Mark_watch == <<"w","a","t","c","h","?">>
Mark_shorts == <<"y","o","u","t","u","b","e",Dot,"c","o","m","/",
                 "s","h","o","r","t","s","/">>
Markers == {Mark_youtu_be, Mark_v, Mark_u, Mark_embed, Mark_watch, Mark_shorts}

MarkAt(mk, s, i) ==
    /\ i + Len(mk) - 1 <= Len(s)
    /\ \A k \in 1..Len(mk) :
          \/ mk[k] = Dot
          \/ mk[k] = WordCls /\ s[i + k - 1] \in WordChars
          \/ mk[k] = s[i + k - 1]

HasShape(s) == \E mk \in Markers, i \in 1..Len(s) : MarkAt(mk, s, i)

\* C7: a bare identifier, 11 characters of [A-Za-z0-9_-], is returned
\* unchanged.
C7_BareIdUnchanged ==
    (ppc = "done" /\ IsIdentifier(url)) => parsed = url

\* C8: a URL of a supported shape that embeds an identifier, followed by
\* nothing or by '&', '?' or '#' and more text, yields that identifier.
C8_ShapeYieldsId ==
    ppc = "done" =>
        \A b \in Shapes :
            LET id == SubSeq(url, Len(b) + 1, Len(b) + 11)
            IN  ( /\ IsPrefix(b, url)
                  /\ Len(url) >= Len(b) + 11
                  /\ IsIdentifier(id)
                  /\ Len(url) > Len(b) + 11 =>
                         url[Len(b) + 12] \in TailDelims )
                => parsed = id

C10_ResultWellFormed ==
    (ppc = "done" /\ parsed # None) => IsIdentifier(parsed)

(***************************************************************************)
(* Strategy order and sequencing                                           *)
(***************************************************************************)
\* the place of a strategy in the documented priority order
DocumentedRank(m) ==
    CASE m = "direct_timedtext" -> 1
      [] m = "direct_timedtext_asr" -> 2
      [] m = "html" -> 3
      [] m = "youtube_data_api" -> 4
      [] m \in {"invidious", "rapidapi", "gotranscript"} -> 5

\* C11 as stated: the strategies are attempted in the documented priority
\* order, direct timed-text lookup first, then auto-generated captions, then
\* HTML caption-track discovery, then the Data API, mirror proxies last
C11_DocumentedOrder ==
    /\ calls # <<>> => DocumentedRank(calls[1]) = 1
    /\ \A i, j \in 1..Len(calls) :
          i < j => DocumentedRank(calls[i]) <= DocumentedRank(calls[j])

\* the order of the list in get_transcript
CodeOrder == <<"html", "direct_timedtext", "direct_timedtext_asr",
               "invidious", "rapidapi", "gotranscript", "youtube_data_api">>

\* C11 amended: the strategies are attempted in the order HTML caption-track
\* discovery, direct timed-text lookup, auto-generated captions, the mirror
\* proxies (Invidious, RapidAPI, GoTranscript), and the Data API last
C11_CodeOrder ==
    /\ Len(calls) <= Len(CodeOrder)
    /\ \A k \in 1..Len(calls) : calls[k] = CodeOrder[k]

\* a call that went through every strategy
C11_Witness == gpc = "done" /\ Len(calls) = Len(CodeOrder)

\* C12: within one call each strategy is invoked at most once, a strategy
\* starts only after every earlier invocation has ended without a
\* transcript, and there are at most as many invocations as strategies
C12_Sequential ==
    /\ Len(calls) <= Len(methods)
    /\ \A i, j \in 1..Len(calls) : i < j => calls[i] # calls[j]
    /\ gpc \in {"loop", "done"} =>
          /\ Len(outcomes) = Len(calls)
          /\ \A k \in 1..(Len(outcomes) - 1) :
                outcomes[k].kind \in {"nothing", "raised"}

\* a later strategy ran after earlier ones failed, and ended the call
C12_Witness ==
    /\ gpc = "done"
    /\ Len(calls) >= 3
    /\ outcomes[Len(outcomes)].kind = "segments"
    /\ \E k \in 1..(Len(outcomes) - 1) : outcomes[k].kind = "raised"

(***************************************************************************)
(* The retry loops                                                         *)
(***************************************************************************)
\* the first n invocations are rate limited and the next one yields segments
RateLimitedThenSuccess(n) ==
    /\ n + 1 <= Len(script)
    /\ \A k \in 1..n : script[k] = Raises(TooManyRequests)
    /\ script[n + 1].kind = "data"
    /\ script[n + 1].data # <<>>

\* C13: when the operation is rate limited N times and then succeeds,
\* get_transcript_with_retry with max_retries = N + 1 returns the segments
\* of the success and has invoked the operation exactly N + 1 times
C13_RetryThenSuccess ==
    \A n \in 0..(MaxRetries - 1) :
        (/\ rfun = "transcript_api"
         /\ max_retries = n + 1
         /\ RateLimitedThenSuccess(n)
         /\ rtpc \in {"after", "done"})
        => /\ rtpc = "done"
           /\ invoked = n + 1
           /\ retval = script[n + 1].data

\* two rate-limited invocations, then the third returned the segments
C13_Witness ==
    /\ rfun = "transcript_api"
    /\ max_retries = 3
    /\ RateLimitedThenSuccess(2)
    /\ rtpc = "done"
    /\ invoked = 3
    /\ Len(waits) = 2

\* a failure that is no rate-limit signal and no success
OtherFailure(out) ==
    \/ out.kind = "raise" /\ out.error # TooManyRequests
    \/ out.kind = "data" /\ out.data = <<>>

\* C14 as stated: a failure that is no rate-limit signal is never retried;
\* the invocation that met it is the last one and no backoff wait follows it
C14_OtherFailureNotRetried ==
    \A k \in 1..invoked :
        OtherFailure(script[k]) =>
            /\ invoked = k
            /\ Len(waits) <= k - 1
            /\ rtpc \in {"after", "done"}

\* every invocation so far was rate limited
AllRateLimited(n) == \A k \in 1..n : script[k] = Raises(TooManyRequests)

\* the returned list names the error e among the parts of its message
CarriesError(v, e) ==
    /\ v # NoneList
    /\ Len(v) >= 1
    /\ \E k \in 2..Len(v[1].text) : v[1].text[k] = e

\* C15 as stated: the loop invokes the operation at most max_retries times;
\* when every invocation is rate limited it invokes it exactly max_retries
\* times and returns a failure that carries the last error
C15_ExhaustionCarriesLastError ==
    rfun = "transcript_api" =>
        /\ invoked <= max_retries
        /\ (rtpc = "done" /\ max_retries >= 1 /\ AllRateLimited(max_retries))
           => /\ invoked = max_retries
              /\ IsUnavailable(retval)
              /\ CarriesError(retval, last_error)

(***************************************************************************)
(* The transcript cache                                                    *)
(***************************************************************************)
\* the request in hand was answered from the cache
AnsweredFromCache ==
    /\ rpc = "responded"
    /\ endpoint = "process"
    /\ response.status = 200
    /\ cacheLookups = 1
    /\ calls = <<>>

\* the key of the request in hand, as the wrapper builds it
RequestKey == response.videoId \o <<":">> \o req.language

\* C16 as stated: the cache is read through by (video id, language): while
\* an unexpired entry exists for the requested pair the fetcher is not
\* invoked, and an answer from the cache is the data that was stored for
\* this very pair
C16_CacheKeyedByPair ==
    /\ (rpc = "fetching" /\ endpoint = "process" /\ gpc = "loop") =>
          LET key == video_id \o <<":">> \o language
          IN  ~(key \in DOMAIN transcript_cache
                /\ now < transcript_cache[key].expires)
    /\ AnsweredFromCache =>
          /\ RequestKey \in DOMAIN transcript_cache
          /\ response.transcript = transcript_cache[RequestKey].data
          /\ cachedFor[RequestKey] = <<response.videoId, req.language>>

\* the step is the return of a fetch to the wrapper
IsFetchReturn == rpc = "fetching" /\ endpoint = "process" /\ rpc' = "responded"

\* the step is the arrival of a request for a video
IsLookup ==
    /\ nreq' = nreq + 1
    /\ endpoint' = "process"
    /\ cacheLookups' = 1

\* C17: a fetch that returns leaves its result in the cache under its key,
\* expiring exactly 24 hours after the store; no entry is ever deleted, an
\* entry changes only when a fetch for its key returns, and an entry whose
\* expiry has passed is not served: the fetcher is invoked again
C17_WriteThrough ==
    [][ /\ IsFetchReturn =>
             LET key == video_id \o <<":">> \o language
             IN  /\ key \in DOMAIN transcript_cache'
                 /\ transcript_cache'[key] =
                        [data |-> result, expires |-> now + 24]
        /\ \A k \in DOMAIN transcript_cache :
             /\ k \in DOMAIN transcript_cache'
             /\ transcript_cache'[k] # transcript_cache[k] =>
                   (IsFetchReturn /\ k = video_id \o <<":">> \o language)
        /\ IsLookup =>
             LET key == extract_video_id(req'.url) \o <<":">> \o req'.language
             IN  (key \in DOMAIN transcript_cache
                  /\ now >= transcript_cache[key].expires)
                 => (rpc' = "fetching" /\ gpc' = "loop")
      ]_vars

\* an entry was stored, expired, and a second fetch for its key replaced it
C17_Witness ==
    /\ rpc = "responded"
    /\ nreq = 2
    /\ calls # <<>>
    /\ now >= 24
    /\ Cardinality(DOMAIN transcript_cache) = 1
    /\ \A k \in DOMAIN transcript_cache :
          transcript_cache[k].expires = now + 24

(***************************************************************************)
(* Repeated and concurrent calls                                           *)
(***************************************************************************)
\* the number of invocations of this call that raised
RaisedCount(outs) == Cardinality({k \in 1..Len(outs) : outs[k].kind = "raised"})

\* C18: a second get_transcript on the same fetcher, with the same
\* arguments and every method behaving as in the first call, returns what
\* the first call returned; the errors recorded by the first call are not
\* among the errors of the second
C18_SecondCallSame ==
    (ncall >= 2 /\ gpc = "done") =>
        /\ result = first
        /\ Len(errors) = RaisedCount(outcomes)

\* both calls found every method failing, some of them by raising
C18_Witness ==
    /\ ncall = 2
    /\ gpc = "done"
    /\ Len(calls) = Len(methods)
    /\ IsUnavailable(first)
    /\ Len(errors) >= 2

\* the error records a call makes of its own invocations: one for each that
\* raised, in order
RECURSIVE OwnErrors(_, _)
OwnErrors(cs, outs) ==
    IF outs = <<>> THEN <<>>
    ELSE LET n == Len(outs)
             before == OwnErrors(SubSeq(cs, 1, n - 1), SubSeq(outs, 1, n - 1))
         IN  IF outs[n].kind = "raised"
             THEN Append(before, [method |-> cs[n], error |-> outs[n].error])
             ELSE before

\* C19: under any interleaving of two requests, the strategies a request
\* attempts and the errors it reports follow from its own strategy outcomes
\* alone, never from what the other request recorded
C19_RequestsIndependent ==
    \A t \in Requests :
        LET me == threads[t]
        IN  (me.pc \in {"loop", "returning", "responded"} /\ ~me.hit) =>
              /\ Len(me.calls) = Len(me.outcomes)
              /\ \A k \in 1..Len(me.calls) : me.calls[k] = CodeOrder[k]
              /\ \A k \in 1..(Len(me.outcomes) - 1) :
                    me.outcomes[k].kind \in {"nothing", "raised"}
              /\ me.pc = "loop" =>
                    fetchers[me.fetcher].errors = OwnErrors(me.calls, me.outcomes)
              /\ (me.pc # "loop" /\ IsUnavailable(me.result)) =>
                    me.result = fallback_message(me.video_id,
                                    OwnErrors(me.calls, me.outcomes))

\* both requests are in their loops, each with errors of its own
C19_Witness ==
    /\ \A t \in Requests : threads[t].pc = "loop"
    /\ Len(fetchers) = 2
    /\ fetchers[1].errors # <<>>
    /\ fetchers[2].errors # <<>>
    /\ fetchers[1].errors # fetchers[2].errors

(***************************************************************************)
(* Empty payloads                                                          *)
(***************************************************************************)
\* the segments a payload of this call holds
PayloadSegments == {tp_in.first.segs, tp_in.lang.segs, tp_in.asr.segs}

\* C20 as stated: a strategy whose payload parses but holds no segment
\* reports the unavailable outcome; what it returns without the
\* unavailability flag are segments of a payload, never made-up ones
C20_NoFabricatedSegment ==
    tpc = "done" =>
        \/ IsUnavailable(tp_out)
        \/ /\ tp_out # <<>>
           /\ tp_out \in PayloadSegments


(***************************************************************************)
(* Properties of the OAuth fetcher (specification SpecOAuth)               *)
(***************************************************************************)
\* the authenticated step gave nothing: no usable credential, or the
\* captions.list call failed
ListingFailed == f_in.token # "valid" \/ f_in.list = "raise"

Requested(r) == \E k \in 1..Len(f_requests) : f_requests[k] = r

\* a list of segments none of which is flagged
IsTranscript(t) ==
    /\ t # NoneList
    /\ t # <<>>
    /\ \A k \in 1..Len(t) : ~GetFlag(t[k])

\* C21: when listing the caption tracks fails or no credential is usable,
\* get_transcript of the OAuth fetcher does not raise; once it has returned,
\* the direct timed-text strategy was attempted, the mirrors were attempted
\* unless the timed-text strategy had segments, and the returned list is a
\* transcript or the unavailable message
C21_ListFailureRecovered ==
    ListingFailed =>
        /\ f_pc # "raised"
        /\ f_pc = "done" =>
              /\ Requested("timedtext_list")
              /\ Requested("invidious") \/
                 (Requested("transcript_url") /\ IsTranscript(f_out))
              /\ IsTranscript(f_out) \/ IsUnavailable(f_out)

\* the captions.list call failed with a valid token, no timed-text found,
\* and the mirrors had the transcript
C21_Witness ==
    /\ f_pc = "done"
    /\ f_in.token = "valid"
    /\ f_in.list = "raise"
    /\ Requested("captions_list")
    /\ ~Requested("transcript_url")
    /\ Requested("invidious")
    /\ f_out = <<[text |-> "hello", start |-> 0, duration |-> 1]>>

(***************************************************************************)
(* Properties of the strategies that need a credential (specification      *)
(* SpecCredentials)                                                        *)
(***************************************************************************)
\* the key method m reads is not in the environment
KeyAbsent(m) ==
    \/ m = "rapidapi" /\ ~env.rapidapi_key
    \/ m = "youtube_data_api" /\ ~env.api_key

\* C22: a strategy whose credential is absent makes no network request,
\* ends without a result and without raising, and the resolution goes on:
\* the hybrid fetcher's RapidAPI and Data API methods without their keys, and
\* the OAuth fetcher's caption listing without a token
C22_AbsentCredentialSkipped ==
    /\ f_pc = "off" =>
          \A i \in 1..Len(calls) :
              KeyAbsent(calls[i]) =>
                  /\ plan[i].kind = "not_called"
                  /\ outcomes[i].kind = "nothing"
                  /\ gpc # "raised"
                  /\ \A k \in 1..Len(errors) : errors[k].method # calls[i]
                  /\ Len(calls) = i =>
                        \/ gpc = "loop" /\ idx = i + 1
                        \/ gpc = "done" /\ i = 7 /\ IsUnavailable(result)
    /\ (f_pc # "off" /\ f_in.token = "absent") =>
          /\ ~Requested("captions_list")
          /\ f_pc # "raised"
          /\ f_pc # "list" => f_local = <<>> /\ f_pc \in {"direct", "invidious", "fallback", "done"}
          /\ f_pc \notin {"list", "direct"} => Requested("timedtext_list")

\* without a RapidAPI key the RapidAPI method was passed and GoTranscript
\* answered; without a token the listing was passed and the mirrors answered
C22_Witness ==
    \/ /\ f_pc = "off"
       /\ ~env.rapidapi_key
       /\ Len(calls) = 6
       /\ calls[5] = "rapidapi"
       /\ calls[6] = "gotranscript"
       /\ outcomes[6].kind = "segments"
       /\ gpc = "done"
    \/ /\ f_pc = "done"
       /\ f_in.token = "absent"
       /\ Requested("invidious")
       /\ IsTranscript(f_out)

(***************************************************************************)
(* Properties of get_transcript of youtube_transcript_fetcher.py           *)
(* (specification SpecBasic)                                               *)
(***************************************************************************)
\* no request of the manual lookup fails, and none has a transcript: the
\* request for the language has a blank body or no <text> node, and after a
\* blank body the track list is blank, names no track, or names a track
\* whose timed text is blank or has no <text> node
ManualAbsent ==
    /\ f_in.innertube = "none"
    /\ \/ f_in.primary = "no_text"
       \/ /\ f_in.primary = "empty"
          /\ \/ f_in.list \in {"empty", "no_tracks"}
             \/ f_in.list = "tracks" /\ f_in.lang \in {"empty", "no_text"}

\* C26: when manual captions are absent, the request with kind=asr has been
\* made by the time get_transcript returns the unavailable message
C26_AsrBeforeUnavailable ==
    (f_pc = "done" /\ ManualAbsent /\ IsUnavailable(f_out)) =>
        Requested("timedtext_asr")

(***************************************************************************)
(* Properties of the track choices and of the normalisers (specification   *)
(* SpecNormalise)                                                          *)
(***************************************************************************)
Returned(f) == n_fun = f /\ n_pc = "done"

\* C23: get_transcript of the Data API fetcher never returns an empty list:
\* when the download fails or the content has no block, it returns the
\* unavailable message
C23_NeverEmptyList ==
    Returned("data_api_get_transcript") =>
        /\ n_out # <<>>
        /\ (~n_in.download \/ n_in.doc.blocks = <<>>) => IsUnavailable(n_out)

\* the places of the tracks of a language
PlacesOf(tracks, lang) ==
    {k \in 1..Len(tracks) : tracks[k].languageCode = lang}
Least(S) == CHOOSE k \in S : \A j \in S : k <= j

\* the first track of the requested language, else the first English track,
\* else the first track
Preferred(tracks, lang) ==
    IF PlacesOf(tracks, lang) # {} THEN Least(PlacesOf(tracks, lang))
    ELSE IF PlacesOf(tracks, <<"e","n">>) # {}
    THEN Least(PlacesOf(tracks, <<"e","n">>))
    ELSE 1

EveryTrackHasUrl(tracks) == \A k \in 1..Len(tracks) : tracks[k].baseUrl

\* C24 as stated: for every non-empty track list the HTML strategy takes the
\* first track of the requested language, else the first English track,
\* else the first track
C24_PreferredTrack ==
    (Returned("html_select") /\ n_in.tracks # <<>>) =>
        n_out = Preferred(n_in.tracks, n_in.language)

\* C24: for every non-empty track list whose tracks all carry a base URL
\* the HTML strategy takes the first track of the requested language, else
\* the first English track, else the first track
C24_PreferredUsableTrack ==
    (Returned("html_select") /\ n_in.tracks # <<>>
     /\ EveryTrackHasUrl(n_in.tracks)) =>
        n_out = Preferred(n_in.tracks, n_in.language)

\* German asked for, French listed first and English last: English taken
C24_Witness ==
    /\ Returned("html_select")
    /\ Len(n_in.tracks) = 3
    /\ EveryTrackHasUrl(n_in.tracks)
    /\ n_in.language = <<"d","e">>
    /\ n_in.tracks[1].languageCode = <<"f","r">>
    /\ n_in.tracks[2].languageCode = <<"f","r">>
    /\ n_in.tracks[3].languageCode = <<"e","n">>
    /\ n_out = 3

\* C25: for every track list and requested language the Data API strategy
\* takes a track of the language the HTML strategy takes
C25_SameLanguageChoice ==
    (Returned("data_api_select") /\ n_in.tracks # <<>>
     /\ EveryTrackHasUrl(n_in.tracks)) =>
        n_in.tracks[n_out].languageCode =
            n_in.tracks[html_select(n_in.tracks, n_in.language)].languageCode

\* the text of a node with every reference resolved and the white space
\* around it removed
Plain(raw) ==
    CASE raw = <<" ", "a", " ">> -> <<"a">>
      [] raw = <<"a", "&amp;", "b">> -> <<"a", "&", "b">>
      [] raw = <<"&amp;", "#", "3", "9", ";">> -> <<"'">>
      [] raw = <<"&lt;", "b", "&gt;">> -> <<"<", "b", ">">>
      [] raw = <<"&amp;", "a", "m", "p", ";">> -> <<"&">>
      [] OTHER -> raw

\* the segments of a returned value: none for None and for the unavailable
\* message
SegmentsOf(v) == IF v = NoneList \/ IsUnavailable(v) THEN <<>> ELSE v

\* C27: normalising a timed-text document gives one segment for each <text>
\* node, in the order of the document, with 0 for a missing start or dur and
\* with the references of the text resolved
C27_OneSegmentPerTextNode ==
    Returned("timedtext") =>
        /\ Len(SegmentsOf(n_out)) = Len(n_in)
        /\ \A k \in 1..Len(n_in) :
              /\ SegmentsOf(n_out)[k].start =
                     (IF n_in[k].start.present THEN n_in[k].start.value ELSE 0)
              /\ SegmentsOf(n_out)[k].duration =
                     (IF n_in[k].dur.present THEN n_in[k].dur.value ELSE 0)
              /\ SegmentsOf(n_out)[k].text = Plain(n_in[k].text)

\* two nodes, the later one first and without dur, the text of the second
\* with a reference: two segments in that order
C27_Witness ==
    /\ Returned("timedtext")
    /\ Len(n_in) = 2
    /\ n_in[1].start = [present |-> TRUE, value |-> 2]
    /\ ~n_in[1].dur.present
    /\ ~n_in[2].start.present
    /\ n_in[2].text = <<"&amp;", "#", "3", "9", ";">>
    /\ Len(n_out) = 2
    /\ n_out[1].start = 2
    /\ n_out[1].duration = 0
    /\ n_out[2].start = 0
    /\ n_out[2].text = <<"'">>

HasSegs(event) == event.has_segs
HasUtf8(event) ==
    event.has_segs /\ \E k \in 1..Len(event.segs) : event.segs[k].has_utf8

\* the utf8 fields of the segs of an event, one after another
RECURSIVE Utf8Of(_)
Utf8Of(segs) ==
    IF segs = <<>> THEN <<>>
    ELSE (IF Head(segs).has_utf8 THEN Head(segs).utf8 ELSE <<>>)
         \o Utf8Of(Tail(segs))

TimesOf(seg, event) ==
    /\ seg.start = (IF event.tStartMs.present THEN event.tStartMs.value ELSE 0)
    /\ seg.duration =
           (IF event.dDurationMs.present THEN event.dDurationMs.value ELSE 0)

\* C28 as stated: one segment for each event that has segs, none for the
\* others; its text is the utf8 fields of the segs one after another, its
\* start tStartMs and its duration dDurationMs, in thousandths
C28_OnePerSegsEvent ==
    Returned("json3") =>
        LET with == SelectSeq(n_in, HasSegs)
        IN  /\ Len(SegmentsOf(n_out)) = Len(with)
            /\ \A k \in 1..Len(with) :
                  /\ SegmentsOf(n_out)[k].text = Utf8Of(with[k].segs)
                  /\ TimesOf(SegmentsOf(n_out)[k], with[k])

\* C28: one segment for each event whose segs hold a utf8 field, none for
\* the others; its text is the utf8 fields of the segs one after another
\* without the white space around them, its start tStartMs and its duration
\* dDurationMs, in thousandths
C28_OnePerUtf8Event ==
    Returned("json3") =>
        LET with == SelectSeq(n_in, HasUtf8)
        IN  /\ Len(SegmentsOf(n_out)) = Len(with)
            /\ \A k \in 1..Len(with) :
                  /\ SegmentsOf(n_out)[k].text = strip(Utf8Of(with[k].segs))
                  /\ TimesOf(SegmentsOf(n_out)[k], with[k])

\* an event without segs, then an event with two segs: one segment
C28_Witness ==
    /\ Returned("json3")
    /\ Len(n_in) = 2
    /\ ~n_in[1].has_segs
    /\ n_in[2].has_segs
    /\ Len(n_in[2].segs) = 2
    /\ n_in[2].segs[1] = [has_utf8 |-> TRUE, utf8 |-> <<"a">>]
    /\ n_in[2].segs[2] = [has_utf8 |-> TRUE, utf8 |-> <<"a">>]
    /\ n_in[2].tStartMs.present
    /\ n_out = <<[text |-> <<"a", "a">>, start |-> 1500,
                  duration |-> IF n_in[2].dDurationMs.present THEN 500 ELSE 0]>>

\* the lines of a block with one space between them
RECURSIVE JoinLines(_)
JoinLines(lines) ==
    IF Len(lines) = 1 THEN lines[1]
    ELSE lines[1] \o <<" ">> \o JoinLines(Tail(lines))

\* h*3600 + m*60 + s of a timestamp, in thousandths
Seconds(t) ==
    (Hms(t).h * 3600 + Hms(t).m * 60 + Hms(t).s) * 1000 + Hms(t).ms

\* C29: parse_srt gives one segment for each block, in the order of the
\* source, with start the first timestamp in seconds, duration end - start,
\* and the lines of the block joined with one space
C29_OneSegmentPerBlock ==
    Returned("parse_srt") =>
        /\ Len(n_out) = Len(n_in.blocks)
        /\ \A k \in 1..Len(n_in.blocks) :
              /\ n_out[k].start = Seconds(n_in.blocks[k].span.start)
              /\ n_out[k].duration = Seconds(n_in.blocks[k].span.end)
                                     - Seconds(n_in.blocks[k].span.start)
              /\ n_out[k].text = JoinLines(n_in.blocks[k].lines)

\* C30: every segment a normaliser returns has start >= 0 and
\* duration >= 0, also for an SRT block whose end precedes its start
C30_NonNegativeTimes ==
    (n_pc = "done" /\ n_fun \in {"parse_srt", "timedtext", "json3"}) =>
        \A k \in 1..Len(SegmentsOf(n_out)) :
            /\ SegmentsOf(n_out)[k].start >= 0
            /\ SegmentsOf(n_out)[k].duration >= 0

(***************************************************************************)
(* Properties of the Invidious strategy (specification SpecMirrors)        *)
(***************************************************************************)
\* the hosts of the fixed list that answer with segments
Yielding == {h \in Hosts(f_in.instances) : f_in.answers[h] = "segments"}

\* C31: the instances requested are hosts of the fixed list, in the order of
\* the shuffled slice, each at most once; every request but the last met a
\* failure, a request follows segments never, and the function ends only on
\* segments or after the last instance of the slice was requested
C31_MirrorsInTurn ==
    f_pc \in {"loop", "done", "raised"} =>
        /\ Len(f_requests) <= Len(f_local)
        /\ \A i \in 1..Len(f_requests) :
              /\ f_requests[i] = f_local[i]
              /\ f_requests[i] \in Hosts(f_in.instances)
              /\ \A j \in 1..Len(f_requests) :
                    i # j => f_requests[i] # f_requests[j]
              /\ i < Len(f_requests) => f_requests[i] \notin Yielding
        /\ f_pc # "loop" =>
              \/ /\ f_requests # <<>>
                 /\ f_requests[Len(f_requests)] \in Yielding
                 /\ f_out = OAuthSegments
              \/ /\ f_requests = f_local
                 /\ f_out = f_in.nothing

\* an instance that raised was followed by a request to the next instance
C31_Witness ==
    /\ f_pc = "done"
    /\ Len(f_requests) >= 2
    /\ f_in.answers[f_requests[1]] = "exception"
    /\ f_out = OAuthSegments

\* C32: the strategy returns segments exactly when some host of the fixed
\* list answers with segments, whatever the shuffle
C32_ShuffleIndependent ==
    f_pc = "done" => (f_out = OAuthSegments <=> Yielding # {})

(***************************************************************************)
(* Properties of the backoff of get_transcript_with_retry (SpecRetry)      *)
(***************************************************************************)
\* C33: the wait that follows the n-th invocation, when that one was rate
\* limited, is 2^n * (0.5 + r) seconds with 0 <= r < 1, so it is at least
\* 2^n / 2 and less than 3 * 2^n / 2 seconds; every invocation but the last
\* is followed by one wait and the last by none
C33_RateLimitWaits ==
    rfun = "transcript_api" =>
        /\ \A n \in 1..Len(waits) :
              script[n] = Raises(TooManyRequests) =>
                  /\ 2 * waits[n] >= (2 ^ n) * TimeUnit
                  /\ 2 * waits[n] < 3 * (2 ^ n) * TimeUnit
                  /\ \E r \in 0..(JitterSteps - 1) :
                        2 * JitterSteps * waits[n] =
                            (2 ^ n) * TimeUnit * (JitterSteps + 2 * r)
        /\ Len(waits) = IF rtpc = "loop" \/ invoked = 0 THEN invoked
                        ELSE invoked - 1

\* three rate-limited invocations with max_retries = 3: two waits
C33_Witness ==
    /\ rfun = "transcript_api"
    /\ rtpc = "done"
    /\ invoked = 3
    /\ \A n \in 1..3 : script[n] = Raises(TooManyRequests)
    /\ Len(waits) = 2

C35_RaiseLeavesCache ==
    [][ (n_pc = "calling" /\ n_pc' # "calling" /\ n_in.func.kind = "raise") =>
            /\ n_pc' = "raised"
            /\ DOMAIN transcript_cache' = DOMAIN transcript_cache
            /\ \A k \in DOMAIN transcript_cache :
                  /\ transcript_cache'[k].data = transcript_cache[k].data
                  /\ transcript_cache'[k].expires = transcript_cache[k].expires
      ]_vars

\* the function raised in a call whose key has an expired entry
C35_Witness ==
    /\ n_pc = "raised"
    /\ LET key == n_in.video_id \o <<":">> \o n_in.language
       IN  /\ key \in DOMAIN transcript_cache
           /\ transcript_cache[key].expires <= now
           /\ transcript_cache[key].data = RetrySegments

(***************************************************************************)
(* The blog of /api/process (specification SpecBlog)                       *)
(***************************************************************************)
Asked == {f_requests[i] : i \in 1..Len(f_requests)}

\* every segment text is white space only, so the joined text is blank
AllBlank(t) ==
    /\ ~IsUnavailable(t)
    /\ \A k \in 1..Len(t) :
          \A i \in 1..Len(t[k].text) : t[k].text[i] \in {" ", "NL", "CR"}

\* C36: generate_blog called with the one-element unavailable message, or
\* with segments whose joined text is blank, sends nothing to the
\* generative-language API and returns a placeholder blog with wordCount 0
C36_NoPostWithoutText ==
    (/\ f_pc = "done"
     /\ "generate_blog" \in Asked
     /\ IsUnavailable(f_in.transcript) \/ AllBlank(f_in.transcript)) =>
        /\ "generativelanguage" \notin Asked
        /\ "blog" \in DOMAIN f_out.body
        /\ f_out.body.blog.wordCount = 0
        /\ f_out.body.blog.videoId = video_id
        /\ f_out.body.blog.title \in {"Transcript Unavailable",
                                      "Empty Transcript"}

\* generate_blog was called with two segments of white space
C36_Witness ==
    /\ f_pc = "done"
    /\ "generate_blog" \in Asked
    /\ Len(f_in.transcript) = 2
    /\ AllBlank(f_in.transcript)
    /\ f_in.transcript[2].text # <<>>
    /\ f_out.body.blog.wordCount = 0

\* C37: generate_blog is called only after fetch_transcript has returned,
\* and only for a truthy generateBlog and a configured key; when the call
\* to the API fails the answer is still 200 with success true, the video
\* id, the transcript that was fetched, and blogGenerationFailed true
C37_BlogFailureKeepsTranscript ==
    /\ \A i \in 1..Len(f_requests) :
          f_requests[i] = "generate_blog" =>
              /\ i > 1
              /\ f_requests[1] = "fetch_transcript"
              /\ f_in.fetch = "returns"
              /\ f_in.generateBlog \notin {"false", "null", "0", ""}
              /\ f_in.gemini_key = "key"
    /\ (/\ f_pc = "done"
        /\ "generativelanguage" \in Asked
        /\ f_in.gemini # "content") =>
          /\ f_out.status = 200
          /\ f_out.body.success = TRUE
          /\ f_out.body.videoId = video_id
          /\ "transcript" \in DOMAIN f_out.body
          /\ f_out.body.transcript = f_in.transcript
          /\ "blogGenerationFailed" \in DOMAIN f_out.body
          /\ f_out.body.blogGenerationFailed = TRUE

\* the API answered with an error and the request was answered with 200
C37_Witness ==
    /\ f_pc = "done"
    /\ f_in.gemini = "non200"
    /\ "generativelanguage" \in Asked
    /\ f_out.status = 200
    /\ "blogGenerationFailed" \in DOMAIN f_out.body

(***************************************************************************)
(* The steps of diagnose_transcript_access (specification SpecDiagnose)    *)
(***************************************************************************)
StepOrder == <<"Get video info", "List caption tracks",
               "Download caption track", "Try alternative methods">>
StepRank(name) == CHOOSE k \in 1..Len(StepOrder) : StepOrder[k] = name

\* C38 as stated: in what diagnose_transcript_access returns every step has
\* the status success or failed, the steps stand in the order video info,
\* list caption tracks, download caption track, alternative methods, and
\* transcript_found is true only with a step of status success
C38_StepsSettled ==
    f_pc = "done" =>
        /\ \A k \in 1..Len(f_out.steps) :
              f_out.steps[k].status \in {"success", "failed"}
        /\ \A i, j \in 1..Len(f_out.steps) :
              i < j => StepRank(f_out.steps[i].step)
                       < StepRank(f_out.steps[j].step)
        /\ f_out.transcript_found =>
              \E k \in 1..Len(f_out.steps) : f_out.steps[k].status = "success"

\* the order of the steps and the condition of transcript_found alone
C38_OrderAndFound ==
    f_pc = "done" =>
        /\ \A i, j \in 1..Len(f_out.steps) :
              i < j => StepRank(f_out.steps[i].step)
                       < StepRank(f_out.steps[j].step)
        /\ f_out.transcript_found =>
              \E k \in 1..Len(f_out.steps) : f_out.steps[k].status = "success"

====
